---- MODULE Spec2Model ----
(***************************************************************************)
(* Flutter Analyze Commenter: the diff index (Diff.parse), the mapping of  *)
(* analyzer findings onto the diff, the synthesis of review comments and   *)
(* their reconciliation with the comments already on the pull request.     *)
(*                                                                         *)
(* Three generations of the script are modelled: src/index.js (variant     *)
(* "current": line-addressed, grouped comments, outline summary),          *)
(* src/unnamed/part_000 (variant "legacy": one comment per finding) and    *)
(* the script of src/README.md:52-239 (variant "readme": one comment per   *)
(* finding, no ceiling, no try/catch around the create and delete calls).  *)
(*                                                                         *)
(* Text is modelled as sequences of tokens.  A message is a sequence of    *)
(* characters; the fixed HTML fragments of a comment body are one token    *)
(* each, and a body is the concatenation the template literal builds.      *)
(* A path is the sequence of its segments and separators; a space, a TAB,  *)
(* a double quote and a letter outside ASCII in a name are tokens of their *)
(* own.                                                                    *)
(* A line of a unified diff is the sequence of the tokens of its text: the *)
(* characters + - and space are tokens of their own, the prefixes a/ and   *)
(* b/ of a file header are one token each, a number is one token:          *)
(*   diff --git a/<p> b/<p>                                                *)
(*   index 1f2e..3c4d 100644 / deleted file mode 100644 / rename from ...  *)
(*   --- a/<p>       --- /dev/null                                         *)
(*   +++ b/<p>       +++ /dev/null                                         *)
(*   @@ -a,b +c,d @@   (a length of 1 is not printed: @@ -a +c @@)         *)
(*   @@ -a,b +c,d @@ <heading>   (git's section heading, when it has one)  *)
(*   +<text>     -<text>     <space><text>                                 *)
(*   \ No newline at end of file                                           *)
(*   the empty string split('\n') yields after the last newline            *)
(* A level or a severity is a string.                                      *)
(***************************************************************************)
EXTENDS Integers, Sequences, FiniteSets, TLC

VARIABLES
    pr,               \* the pull request's change set (sections of hunks)
    diffData,         \* the unified diff text of pr, as a sequence of lines
    diff,             \* the Diff object: [currentFile, lineCounter, files]
    variant,          \* "current" (index.js), "legacy" (part_000), "readme"
    pc,               \* position of the run
    issues,           \* the findings parsed so far
    comments,         \* comment-store: conversation (issue) comments
    reviews,          \* comment-store: review (line) comments
    nextId,           \* next identity the comment-store assigns
    inlineComments,   \* desired line comments (legacy: localComments)
    outlineComment,   \* body of the out-of-diff summary; null is <<>>
    remoteComments,   \* snapshot returned by listReviewComments
    commentsToAdd,
    commentsToDelete,
    idx,              \* index of the for-of loop in progress
    found,            \* id of the comment find() returned; undefined is 0
    pass,             \* 1 in a run; 2 when the reconciliation is run again
    calls,            \* history: the external calls made, in order
    failed            \* history: messages passed to core.setFailed

vars == <<pr, diffData, diff, variant, pc, issues, comments, reviews, nextId,
          inlineComments, outlineComment, remoteComments, commentsToAdd,
          commentsToDelete, idx, found, pass, calls, failed>>

(***************************************************************************)
(* Bounds of the model.                                                    *)
(***************************************************************************)
MaxSections == 2
MaxHunks == 2
MaxBodyLines == 3

(***************************************************************************)
(* Program constants.                                                      *)
(***************************************************************************)
maxIssues == 10
perPage == 100

NoPath == <<>>

Sp == " "
Tab == "\t"
Quote == "\""

\* The names of the files of a change set: two plain names, a name with a
\* space, a name with a letter outside ASCII (a-umlaut) and a name that is a
\* member of Object.prototype.
Paths == {<<"f1">>, <<"f2">>, <<"my", Sp, "file">>, <<"U+00E4">>, <<"constructor">>}

\* The place of a name in the order of the bytes of the names: the order in
\* which a diff lists its sections (a renamed file by its new name).
PathRank(path) ==
    CASE path = <<"constructor">> -> 1
      [] path = <<"f1">> -> 2
      [] path = <<"f2">> -> 3
      [] path = <<"my", Sp, "file">> -> 4
      [] path = <<"U+00E4">> -> 5

(***************************************************************************)
(* Small helpers on sequences.                                             *)
(***************************************************************************)
RECURSIVE Concat(_)
Concat(ss) == IF ss = <<>> THEN <<>> ELSE Head(ss) \o Concat(Tail(ss))

RECURSIVE Sum(_)
Sum(s) == IF s = <<>> THEN 0 ELSE Head(s) + Sum(Tail(s))

Last(s) == s[Len(s)]

Max(S) == CHOOSE x \in S : \A y \in S : y <= x

Range(s) == {s[i] : i \in DOMAIN s}

(***************************************************************************)
(* String.prototype.startsWith and String.prototype.replace with a string  *)
(* pattern, on token text.                                                 *)
(***************************************************************************)
IsPrefix(pat, s, at) ==
    /\ at + Len(pat) - 1 <= Len(s)
    /\ \A j \in 1..Len(pat) : s[at + j - 1] = pat[j]

\* s.startsWith(pat)
StartsWith(s, pat) == IsPrefix(pat, s, 1)

\* s.replace(pat, ''): the first occurrence only.
RemoveFirst(s, pat) ==
    IF pat = <<>> \/ ~\E at \in 1..Len(s) : IsPrefix(pat, s, at)
    THEN s
    ELSE LET at == CHOOSE a \in 1..Len(s) :
                       /\ IsPrefix(pat, s, a)
                       /\ \A b \in 1..(a - 1) : ~IsPrefix(pat, s, b)
         IN SubSeq(s, 1, at - 1) \o SubSeq(s, at + Len(pat), Len(s))

(***************************************************************************)
(* The unified diff of a change set, as git writes it.  A section is       *)
(* [path, kind, hunks]; kind is "modified", "added" (a new file: header    *)
(* --- /dev/null), "deleted" (header +++ /dev/null) or "renamed" (no       *)
(* content change: no ---/+++ pair and no hunk).  A hunk is                *)
(* [c, heading, body]: c the new-side start of its header, heading the     *)
(* text git prints after the closing @@ (the last line before the hunk     *)
(* that begins with a letter, _ or $; empty when there is none), body its  *)
(* lines.  A body line is                                                  *)
(* [k, t]: k is "add", "del", "ctx" or "nonl" (the marker                  *)
(* \ No newline at end of file), t the text after the first character.     *)
(***************************************************************************)
BodyLine(k, t) == [k |-> k, t |-> t]

\* A text that begins with none of + - and space.
Plain == <<"x">>

\* Texts an added line may have: `x`, `++ b/f2` and `++i;`.
AddTexts == {Plain, <<"+", "+", Sp, "b/", "f2">>, <<"+", "+", "i", ";">>}

\* Texts a removed line may have: `x` and `--` (a YAML document start or a
\* Markdown rule gives the diff line `----`).
DelTexts == {Plain, <<"-", "-">>}

\* The letters outside ASCII of the names of the model.
NonAscii == {"U+00E4"}

\* git quotes a name that holds a double quote, a backslash, a control
\* character or (core.quotePath) a byte above 0x7f.
MustQuote(path) == \E i \in DOMAIN path : path[i] \in NonAscii \cup {Quote, "\\", Tab}

\* The escape of one token inside a quoted name.
Escape(tok) ==
    CASE tok = "U+00E4" -> "\\303\\244"
      [] tok = Quote -> "\\\""
      [] tok = "\\" -> "\\\\"
      [] tok = Tab -> "\\t"
      [] OTHER -> tok

QuotedName(path) ==
    IF MustQuote(path)
    THEN <<Quote>> \o [i \in DOMAIN path |-> Escape(path[i])] \o <<Quote>>
    ELSE path

\* The name of a file with its a/ or b/ prefix.
Label(prefix, path) ==
    IF MustQuote(path)
    THEN <<Quote, prefix>> \o [i \in DOMAIN path |-> Escape(path[i])] \o <<Quote>>
    ELSE <<prefix>> \o path

\* On the --- and +++ lines a TAB follows a name that contains a space.
TabIfSpace(label) == IF \E i \in DOMAIN label : label[i] = Sp THEN <<Tab>> ELSE <<>>

\* The name a renamed file had before.
FormerName(path) == <<"was-">> \o path

GitLine(old, new) ==
    <<"diff", Sp, "--git", Sp>> \o Label("a/", old) \o <<Sp>> \o Label("b/", new)

\* The index line names the mode only when the file exists on both sides.
IndexLine(kind) ==
    CASE kind = "modified" -> <<"index", Sp, "1f2e..3c4d", Sp, "100644">>
      [] kind = "added" -> <<"index", Sp, "0000..3c4d">>
      [] kind = "deleted" -> <<"index", Sp, "1f2e..0000">>

ModeLine(what) == <<what, Sp, "file", Sp, "mode", Sp, "100644">>

OldHeader(path) ==
    <<"-", "-", "-", Sp>> \o Label("a/", path) \o TabIfSpace(Label("a/", path))

NewHeader(path) ==
    <<"+", "+", "+", Sp>> \o Label("b/", path) \o TabIfSpace(Label("b/", path))

OldNull == <<"-", "-", "-", Sp, "/dev/null">>

NewNull == <<"+", "+", "+", Sp, "/dev/null">>

SectionHeader(sec) ==
    CASE sec.kind = "modified" ->
            <<GitLine(sec.path, sec.path), IndexLine(sec.kind),
              OldHeader(sec.path), NewHeader(sec.path)>>
      [] sec.kind = "added" ->
            <<GitLine(sec.path, sec.path), ModeLine("new"), IndexLine(sec.kind),
              OldNull, NewHeader(sec.path)>>
      [] sec.kind = "deleted" ->
            <<GitLine(sec.path, sec.path), ModeLine("deleted"), IndexLine(sec.kind),
              OldHeader(sec.path), NewNull>>
      [] sec.kind = "renamed" ->
            <<GitLine(FormerName(sec.path), sec.path),
              <<"similarity", Sp, "index", Sp, "100%">>,
              <<"rename", Sp, "from", Sp>> \o QuotedName(FormerName(sec.path)),
              <<"rename", Sp, "to", Sp>> \o QuotedName(sec.path)>>

\* The number of new-side lines of a hunk (the d of its header) and of
\* old-side lines (the b).
NewLen(h) == Cardinality({j \in DOMAIN h.body : h.body[j].k \in {"add", "ctx"}})

OldLen(h) == Cardinality({j \in DOMAIN h.body : h.body[j].k \in {"del", "ctx"}})

\* The a of the header of the j-th hunk of a section: the new-side start
\* less what the hunks before it added; a side without lines names the line
\* before it.
OldStart(hunks, j) ==
    LET h == hunks[j]
        first == IF NewLen(h) = 0 THEN h.c + 1 ELSE h.c
        shift == Sum([i \in 1..(j - 1) |-> NewLen(hunks[i]) - OldLen(hunks[i])])
    IN IF OldLen(h) = 0 THEN first - shift - 1 ELSE first - shift

\* `start,length`; a length of 1 is not printed.
RangeText(start, len) ==
    IF len = 1 THEN <<ToString(start)>> ELSE <<ToString(start), ",", ToString(len)>>

\* The number of lines the old file has before the j-th hunk of a section.
OldBefore(hunks, j) ==
    IF OldLen(hunks[j]) = 0 THEN OldStart(hunks, j) ELSE OldStart(hunks, j) - 1

\* A heading is a line of the old file before the hunk.
HeadingOk(hunks, j) == hunks[j].heading # <<>> => OldBefore(hunks, j) >= 1

HunkHeader(a, h) ==
    <<"@@", Sp, "-">> \o RangeText(a, OldLen(h)) \o <<Sp, "+">>
    \o RangeText(h.c, NewLen(h)) \o <<Sp, "@@">>
    \o (IF h.heading = <<>> THEN <<>> ELSE <<Sp>> \o h.heading)

BodyText(l) ==
    CASE l.k = "add" -> <<"+">> \o l.t
      [] l.k = "del" -> <<"-">> \o l.t
      [] l.k = "ctx" -> <<Sp>> \o l.t
      [] l.k = "nonl" -> <<"\\", Sp, "No newline at end of file">>

HunkLines(a, h) == <<HunkHeader(a, h)>> \o [i \in DOMAIN h.body |-> BodyText(h.body[i])]

SectionLines(sec) ==
    SectionHeader(sec)
    \o Concat([i \in DOMAIN sec.hunks |-> HunkLines(OldStart(sec.hunks, i), sec.hunks[i])])

\* The text GitHub returns for the change set, split at '\n' (src/index.js:257):
\* the last element is the empty string.
DiffLines(p) == Concat([i \in DOMAIN p |-> SectionLines(p[i])]) \o << <<>> >>

(***************************************************************************)
(* What the change set says, independently of any parser: the new-revision *)
(* number of the i-th body line of a hunk, and the added lines of a file.  *)
(***************************************************************************)
NewLineNo(h, i) == h.c - 1 + Cardinality({j \in 1..i : h.body[j].k \in {"add", "ctx"}})

HunkAdded(h) == {NewLineNo(h, i) : i \in {j \in DOMAIN h.body : h.body[j].k = "add"}}

SectionAdded(sec) == UNION {HunkAdded(sec.hunks[i]) : i \in DOMAIN sec.hunks}

AddedLines(p, f) == UNION {SectionAdded(p[s]) : s \in {t \in DOMAIN p : p[t].path = f}}

SectionBodyCount(sec) == Sum([i \in DOMAIN sec.hunks |-> Len(sec.hunks[i].body)])

BodyCount(p) == Sum([i \in DOMAIN p |-> SectionBodyCount(p[i])])

(***************************************************************************)
(* Diff (src/index.js:250-289).                                            *)
(***************************************************************************)
PlusB == <<"+", "+", "+", Sp, "b/">>

\* line.startsWith('+++ b/')
StartsWithPlusB(line) == StartsWith(line, PlusB)

\* line.replace('+++ b/', '')
ReplacePlusB(line) == RemoveFirst(line, PlusB)

\* The numbers a hunk header of the model can hold.
MaxLineNo == 20

\* \d+
Digits == {ToString(n) : n \in 0..MaxLineNo}

\* parseInt(text, 10)
parseInt(tok) == CHOOSE n \in 0..MaxLineNo : ToString(n) = tok

\* The index of the token that follows a match of \d+,?\d* at index i of the
\* line; 0 when there is no number at i.
AfterRange(line, i) ==
    IF i > Len(line) \/ line[i] \notin Digits THEN 0
    ELSE IF i + 1 <= Len(line) /\ line[i + 1] = ","
         THEN (IF i + 2 <= Len(line) /\ line[i + 2] \in Digits THEN i + 3 ELSE i + 2)
         ELSE i + 1

\* line.match(/^@@ -\d+,?\d* \+(\d+),?\d* @@/): the comma and the length are
\* optional, so both forms of the header match.
HunkHeaderMatch(line) ==
    /\ StartsWith(line, <<"@@", Sp, "-">>)
    /\ LET j == AfterRange(line, 4)
       IN /\ j # 0
          /\ j + 1 <= Len(line)
          /\ line[j] = Sp /\ line[j + 1] = "+"
          /\ LET k == AfterRange(line, j + 2)
             IN /\ k # 0
                /\ k + 1 <= Len(line)
                /\ line[k] = Sp /\ line[k + 1] = "@@"

\* parseInt(hunkHeaderMatch[1], 10): the group of the new-side start.
NewStart(line) == parseInt(line[AfterRange(line, 4) + 2])

\* line.startsWith('+')
StartsWithPlus(line) == StartsWith(line, <<"+">>)

\* line.startsWith('-')
StartsWithMinus(line) == StartsWith(line, <<"-">>)

\* The members of Object.prototype: this.files and levelIcon are plain
\* objects, and a lookup of one of these names gives the inherited member.
ObjectPrototype ==
    {"constructor", "hasOwnProperty", "isPrototypeOf", "propertyIsEnumerable",
     "toLocaleString", "toString", "valueOf", "__proto__", "__defineGetter__",
     "__defineSetter__", "__lookupGetter__", "__lookupSetter__"}

\* this.files[fileName]: "own" (a DiffFile), "inherited" or "undefined".
Lookup(files, fileName) ==
    IF fileName \in DOMAIN files THEN "own"
    ELSE IF Len(fileName) = 1 /\ fileName[1] \in ObjectPrototype THEN "inherited"
    ELSE "undefined"

\* threw: a TypeError has left the constructor; there is no Diff object.
EmptyDiff == [currentFile |-> NoPath, lineCounter |-> 0, files |-> <<>>, threw |-> FALSE]

\* An inherited member is truthy and has no addChange: TypeError.
addFileChange(d, fileName, line) ==
    CASE Lookup(d.files, fileName) = "own" ->
            [d EXCEPT !.files[fileName] = Append(@, line)]
      [] Lookup(d.files, fileName) = "undefined" ->
            [d EXCEPT !.files = @ @@ (fileName :> <<line>>)]
      [] Lookup(d.files, fileName) = "inherited" ->
            [d EXCEPT !.threw = TRUE]

\* One iteration of the loop of Diff.parse.
parseLine(d, line) ==
    IF StartsWithPlusB(line)
    THEN [d EXCEPT !.currentFile = ReplacePlusB(line), !.lineCounter = 0]
    ELSE IF HunkHeaderMatch(line)
    THEN [d EXCEPT !.lineCounter = NewStart(line) - 1]
    ELSE IF StartsWithPlus(line)
    THEN addFileChange([d EXCEPT !.lineCounter = d.lineCounter + 1],
                       d.currentFile, d.lineCounter + 1)
    ELSE IF ~StartsWithMinus(line)
    THEN [d EXCEPT !.lineCounter = d.lineCounter + 1]
    ELSE d

\* The loop ends with the text or with the exception.
RECURSIVE parseFrom(_, _)
parseFrom(d, data) ==
    IF data = <<>> \/ d.threw THEN d ELSE parseFrom(parseLine(d, Head(data)), Tail(data))

\* new Diff(data): this.files = {}; this.parse(data)
parse(data) == parseFrom(EmptyDiff, data)

hasChange(changes, line) == \E i \in DOMAIN changes : changes[i] = line

\* this.files[fileName] && this.files[fileName].hasChange(line): "undefined",
\* "true", "false", or "TypeError" (an inherited member has no hasChange).
fileHasChange(d, fileName, line) ==
    CASE Lookup(d.files, fileName) = "undefined" -> "undefined"
      [] Lookup(d.files, fileName) = "inherited" -> "TypeError"
      [] Lookup(d.files, fileName) = "own" ->
            IF hasChange(d.files[fileName], line) THEN "true" ELSE "false"

(***************************************************************************)
(* Findings.  A line of the analyzer log either matches                    *)
(* /\[(info|warning|error)\] (.+) \((.+):(\d+):(\d+)\)/ and is the record  *)
(* of its groups, or does not match and is skipped.                        *)
(***************************************************************************)
Issue(level, message, file, line, column) ==
    [level |-> level, message |-> message, file |-> file, line |-> line, column |-> column]

workingDir == <<"/", "w">>

\* .replace(/^(\\|\/)/, '')
StripLeadingSeparator(s) ==
    IF s # <<>> /\ Head(s) \in {"\\", "/"} THEN Tail(s) ELSE s

\* .replace(/\\/, '/'): no g flag, the first backslash only.
ReplaceBackslash(s) ==
    IF ~\E i \in DOMAIN s : s[i] = "\\"
    THEN s
    ELSE LET at == CHOOSE a \in DOMAIN s :
                       s[a] = "\\" /\ \A b \in 1..(a - 1) : s[b] # "\\"
         IN [s EXCEPT ![at] = "/"]

\* src/index.js:344 and :429
NormalizePath(path, wd) == ReplaceBackslash(StripLeadingSeparator(RemoveFirst(path, wd)))

\* src/unnamed/part_000:71-73
convertFullPathToDiffPath(fullPath) ==
    LET s == RemoveFirst(fullPath, workingDir)
    IN IF s # <<>> /\ Head(s) = "/" THEN Tail(s) ELSE s

Matches(log) == SelectSeq(log, LAMBDA e : e.match)

parseAnalyzerOutputs(analyzeLog, wd) ==
    LET m == Matches(analyzeLog)
    IN [i \in DOMAIN m |->
           Issue(m[i].level, m[i].message, NormalizePath(m[i].path, wd),
                 m[i].line, m[i].column)]

\* src/README.md:93-107: the file is the path of the log; run() converts
\* it afterwards (src/README.md:162-165).
parseAnalyzerOutput(output) ==
    LET m == Matches(output)
    IN [i \in DOMAIN m |->
           Issue(m[i].level, m[i].message, m[i].path, m[i].line, m[i].column)]

analyzerResultsOf(output) ==
    LET results == parseAnalyzerOutput(output)
    IN [i \in DOMAIN results |->
           [results[i] EXCEPT !.file = convertFullPathToDiffPath(@)]]

parseToIssues(analyzeLog) ==
    LET m == Matches(analyzeLog)
    IN [i \in DOMAIN m |->
           Issue(m[i].level, m[i].message, convertFullPathToDiffPath(m[i].path),
                 m[i].line, m[i].column)]

UpperCase ==
    <<"A", "B", "C", "D", "E", "F", "G", "H", "I", "J", "K", "L", "M",
      "N", "O", "P", "Q", "R", "S", "T", "U", "V", "W", "X", "Y", "Z">>

LowerCase ==
    <<"a", "b", "c", "d", "e", "f", "g", "h", "i", "j", "k", "l", "m",
      "n", "o", "p", "q", "r", "s", "t", "u", "v", "w", "x", "y", "z">>

\* The lower-case form of one character (the letters of ASCII).
LowerChar(c) ==
    IF \E i \in DOMAIN UpperCase : UpperCase[i] = c
    THEN LowerCase[CHOOSE i \in DOMAIN UpperCase : UpperCase[i] = c]
    ELSE c

\* diag.severity.toLowerCase(): every character of the string.
RECURSIVE toLowerCase(_)
toLowerCase(w) ==
    IF w = "" THEN ""
    ELSE LowerChar(SubSeq(w, 1, 1)) \o toLowerCase(SubSeq(w, 2, Len(w)))

(***************************************************************************)
(* CustomLintParser.parse (src/index.js:411-434).  The log file is         *)
(* [state, diagnostics]: "absent" (path undefined or ''), "unreadable"     *)
(* (readFileSync throws), "nojson" (no {...} in the text), "malformed"     *)
(* ({...} that JSON.parse rejects) or "ok".  The result is                 *)
(* [threw, issues].                                                        *)
(***************************************************************************)
CustomLintParse(file, wd) ==
    CASE file.state = "absent" -> [threw |-> FALSE, issues |-> <<>>]
      [] file.state = "unreadable" -> [threw |-> TRUE, issues |-> <<>>]
      [] file.state = "nojson" -> [threw |-> FALSE, issues |-> <<>>]
      [] file.state = "malformed" -> [threw |-> TRUE, issues |-> <<>>]
      [] file.state = "ok" ->
            [threw |-> FALSE,
             issues |-> [i \in DOMAIN file.diagnostics |->
                 LET g == file.diagnostics[i]
                 IN Issue(toLowerCase(g.severity), g.problemMessage,
                          NormalizePath(g.file, wd), g.line, g.column)]]

(***************************************************************************)
(* Locating findings in the diff and grouping them.                        *)
(***************************************************************************)
\* if (diff.fileHasChange(issue.file, issue.line)): "true" is the one truthy
\* answer.  threw: fileHasChange threw for a finding and the function
\* returned nothing; the two lists then hold the other findings.
filterIssuesByDiff(d, iss) ==
    [issuesInDiff |->
        SelectSeq(iss, LAMBDA x : fileHasChange(d, x.file, x.line) = "true"),
     issuesNotInDiff |->
        SelectSeq(iss, LAMBDA x : fileHasChange(d, x.file, x.line) \in {"false", "undefined"}),
     threw |-> \E i \in DOMAIN iss : fileHasChange(d, iss[i].file, iss[i].line) = "TypeError"]

\* The key `${issue.file}:${issue.line}` of groupIssuesByLine.
GroupKey(x) == <<x.file, x.line>>

\* Mutant: every finding opens a group of its own.
RECURSIVE groupFrom_NoMerge(_, _)
groupFrom_NoMerge(grouped, iss) ==
    IF iss = <<>> THEN grouped
    ELSE groupFrom_NoMerge(Append(grouped, <<Head(iss)>>), Tail(iss))

\* Object.values(grouped): one group per key, in the order the keys were
\* first inserted, each holding its issues in input order.
RECURSIVE groupFrom(_, _)
groupFrom(grouped, iss) ==
    IF iss = <<>> THEN grouped
    ELSE LET x == Head(iss)
             hit == {g \in DOMAIN grouped : GroupKey(grouped[g][1]) = GroupKey(x)}
         IN IF hit = {}
            THEN groupFrom(Append(grouped, <<x>>), Tail(iss))
            ELSE LET g == CHOOSE h \in hit : TRUE
                 IN groupFrom([grouped EXCEPT ![g] = Append(@, x)], Tail(iss))

groupIssuesByLine(iss) == groupFrom(<<>>, iss)

(***************************************************************************)
(* Comment bodies.                                                         *)
(***************************************************************************)
\* `${levelIcon[issue.level]}`: levelIcon is a plain object, so the name of a
\* member of Object.prototype gives the text of the inherited member.  The
\* glyphs are written in ASCII.
levelIcon(level) ==
    CASE level = "info" -> "(i)"
      [] level = "warning" -> "(!)"
      [] level = "error" -> "(x)"
      [] level = "constructor" -> "function Object() { [native code] }"
      [] level = "__proto__" -> "[object Object]"
      [] level \in ObjectPrototype \ {"constructor", "__proto__"} ->
            "function " \o level \o "() { [native code] }"
      [] OTHER -> "undefined"

IssueMarker == "<!-- Flutter Analyze Commenter: issue -->"
OutlineMarker == "<!-- Flutter Analyze Commenter: outline issues -->"
maxIssuesCommentHeader == "<!-- Flutter Analyze Commenter: maxIssues -->"
LegacyMarker == "<!-- Flutter Analyze Commenter -->"

CommentRow(x) ==
    <<"<tr><td>", levelIcon(x.level), "</td><td>">> \o x.message \o <<"</td></tr>">>

\* new Comment(issues) (src/index.js:301-317)
Comment(group) ==
    [path |-> group[1].file,
     line |-> group[1].line,
     body |-> <<"<table><thead><tr><th>Level</th><th>Message</th></tr></thead><tbody>">>
              \o Concat([i \in DOMAIN group |-> CommentRow(group[i])])
              \o <<"</tbody></table>", IssueMarker>>]

\* new LocalComment(issue) (src/unnamed/part_000:27-38); position is held in
\* the field line.
LocalComment(x) ==
    [path |-> x.file,
     line |-> x.line,
     body |-> <<"<table><tr><td>", levelIcon(x.level), "</td><td>">> \o x.message
              \o <<"</td></tr></table>", LegacyMarker>>]

\* Comment.fromAnalyzerResult(result) (src/README.md:80-84): the icon is
\* chosen by a conditional, so every level that is neither info nor warning
\* gets the icon of an error; position is held in the field line.
fromAnalyzerResult(result) ==
    LET level == IF result.level = "info" THEN "(i)"
                 ELSE IF result.level = "warning" THEN "(!)" ELSE "(x)"
    IN [path |-> result.file,
        line |-> result.line,
        body |-> <<"<table><tr><td>", level, "</td><td>">> \o result.message
                 \o <<"</td></tr></table>", LegacyMarker>>]

OutlineRow(x) ==
    <<"<tr><td>", levelIcon(x.level), "</td><td>">> \o x.file
    \o <<"</td><td>", ToString(x.line), "</td><td>">> \o x.message \o <<"</td></tr>">>

generateTableForIssuesNotInDiff(issuesNotInDiff) ==
    <<"<p>Flutter Analyze Commenter has detected the following issues ...</p>",
      "<table><thead><tr><th>Level</th><th>File</th><th>Line</th><th>Message</th></tr></thead><tbody>">>
    \o Concat([i \in DOMAIN issuesNotInDiff |-> OutlineRow(issuesNotInDiff[i])])
    \o <<"</tbody></table >", OutlineMarker>>

\* src/index.js:77
MaxIssuesBody(n) ==
    <<"Flutter analyze commenter found ", ToString(n),
      " issues, which exceeds the maximum of ", ToString(maxIssues), ".\n",
      maxIssuesCommentHeader>>

\* body.includes(marker)
Includes(body, marker) == \E i \in DOMAIN body : body[i] = marker

\* response.data.find(pred): the first element, or undefined (0 here).
FindFirst(data, marker) ==
    IF \E i \in DOMAIN data : Includes(data[i].body, marker)
    THEN CHOOSE i \in DOMAIN data :
            /\ Includes(data[i].body, marker)
            /\ \A j \in 1..(i - 1) : ~Includes(data[j].body, marker)
    ELSE 0

(***************************************************************************)
(* Reconciliation (src/index.js:182-197, 319-332).                         *)
(***************************************************************************)
\* a || b on line numbers; null is 0.
OrElse(a, b) == IF a # 0 THEN a ELSE b

RemoteComment(c) ==
    [id |-> c.id, path |-> c.path, line |-> OrElse(c.original_line, c.line), body |-> c.body]

\* Mutant: the body is not compared.
matchesLocalComment_NoBody(remote, localComment) ==
    /\ remote.path = localComment.path
    /\ remote.line = localComment.line

matchesLocalComment(remote, localComment) ==
    /\ remote.path = localComment.path
    /\ remote.line = localComment.line
    /\ remote.body = localComment.body

\* comment.matchesExistingComment(existingComment) (src/README.md:86-90)
matchesExistingComment(comment, existingComment) ==
    /\ comment.path = existingComment.path
    /\ comment.line = existingComment.line
    /\ comment.body = existingComment.body

\* src/README.md:210-211
newComments(cs, existingComments) ==
    SelectSeq(cs, LAMBDA c : ~\E e \in DOMAIN existingComments :
                                 matchesExistingComment(c, existingComments[e]))

missingComments(cs, existingComments) ==
    SelectSeq(existingComments, LAMBDA e : ~\E c \in DOMAIN cs :
                                              matchesExistingComment(cs[c], e))

\* Mutant: every() where the code has some().
ToAdd_Every(locals, remotes) ==
    SelectSeq(locals, LAMBDA l : ~\A r \in DOMAIN remotes : matchesLocalComment(remotes[r], l))

ToAdd(locals, remotes) ==
    SelectSeq(locals, LAMBDA l : ~\E r \in DOMAIN remotes : matchesLocalComment(remotes[r], l))

\* Mutant: the negation is lost.
ToDelete_Inverted(locals, remotes) ==
    SelectSeq(remotes, LAMBDA r : \E l \in DOMAIN locals : matchesLocalComment(r, locals[l]))

ToDelete(locals, remotes) ==
    SelectSeq(remotes, LAMBDA r : ~\E l \in DOMAIN locals : matchesLocalComment(r, locals[l]))

\* The first n elements: the one page a list call gets.
Page(data, n) == SubSeq(data, 1, IF Len(data) < n THEN Len(data) ELSE n)

\* The first perPage elements: the one page the list calls ask for.
FirstPage(data) == Page(data, perPage)

\* The page size of the comment-store when a call names none
\* (src/README.md:195-199).
defaultPerPage == 30

(***************************************************************************)
(* generateLocalComments (src/unnamed/part_000:75-117).                    *)
(***************************************************************************)
\* line.startsWith('---')
StartsWithMinus3(line) == StartsWith(line, <<"-", "-", "-">>)

\* line.startsWith('+++')
StartsWithPlus3(line) == StartsWith(line, <<"+", "+", "+">>)

\* oldLineCounter is written and never read; it is left out.  The hunk
\* header pattern of part_000:95 matches the same lines as that of
\* index.js:266; its group 2 is the new-side start.
EmptyWalk == [currentFile |-> NoPath, newLineCounter |-> 0, localComments |-> <<>>]

walkLine(w, line, iss) ==
    IF StartsWithMinus3(line) \/ StartsWithPlus3(line)
    THEN [w EXCEPT !.currentFile = IF StartsWithPlus3(line) THEN ReplacePlusB(line) ELSE @,
                   !.newLineCounter = 0]
    ELSE IF HunkHeaderMatch(line)
    THEN [w EXCEPT !.newLineCounter = NewStart(line) - 1]
    ELSE IF StartsWithPlus(line)
    THEN LET n == w.newLineCounter + 1
             matchedResults == SelectSeq(iss, LAMBDA x : x.file = w.currentFile /\ x.line = n)
         IN [w EXCEPT !.newLineCounter = n,
                      !.localComments = @ \o [i \in DOMAIN matchedResults |->
                                                 LocalComment(matchedResults[i])]]
    ELSE IF StartsWithMinus(line)
    THEN w
    ELSE [w EXCEPT !.newLineCounter = @ + 1]

RECURSIVE walkFrom(_, _, _)
walkFrom(w, data, iss) ==
    IF data = <<>> THEN w ELSE walkFrom(walkLine(w, Head(data), iss), Tail(data), iss)

generateLocalComments(data, iss) == walkFrom(EmptyWalk, data, iss).localComments

(***************************************************************************)
(* generateReviewComments (src/README.md:113-155): the same traversal,     *)
(* with Comment.fromAnalyzerResult for each matched result.                *)
(***************************************************************************)
reviewLine(w, line, analyzerResults) ==
    IF StartsWithMinus3(line) \/ StartsWithPlus3(line)
    THEN [w EXCEPT !.currentFile = IF StartsWithPlus3(line) THEN ReplacePlusB(line) ELSE @,
                   !.newLineCounter = 0]
    ELSE IF HunkHeaderMatch(line)
    THEN [w EXCEPT !.newLineCounter = NewStart(line) - 1]
    ELSE IF StartsWithPlus(line)
    THEN LET n == w.newLineCounter + 1
             matchedResults == SelectSeq(analyzerResults,
                                         LAMBDA x : x.file = w.currentFile /\ x.line = n)
         IN [w EXCEPT !.newLineCounter = n,
                      !.localComments = @ \o [i \in DOMAIN matchedResults |->
                                                 fromAnalyzerResult(matchedResults[i])]]
    ELSE IF StartsWithMinus(line)
    THEN w
    ELSE [w EXCEPT !.newLineCounter = @ + 1]

RECURSIVE reviewFrom(_, _, _)
reviewFrom(w, data, analyzerResults) ==
    IF data = <<>> THEN w
    ELSE reviewFrom(reviewLine(w, Head(data), analyzerResults), Tail(data), analyzerResults)

generateReviewComments(data, analyzerResults) ==
    reviewFrom(EmptyWalk, data, analyzerResults).localComments

(***************************************************************************)
(* SpecDiff: the change set grows one section, hunk or line at a time, and *)
(* the Diff object is the one Diff.parse builds from the text so far.      *)
(***************************************************************************)
HunkStarts == {1, 3}

\* The headings a hunk may have: none, or, in a file that had lines before,
\* a line with the text x (HeadingOk keeps those with a line before the
\* hunk).
Headings(kind) == IF kind = "modified" THEN {<<>>, Plain} ELSE {<<>>}

NewEnd(h) == h.c - 1 + NewLen(h)

\* The kinds of section and, for each kind, the new-side starts a hunk may
\* have, the number of hunks and the lines a body may hold.
Kinds == {"modified", "added", "deleted", "renamed"}

PlainPaths == {<<"f1">>, <<"f2">>}

\* The kinds of section a file of the model may have: every kind for the
\* plain names, a changed or a new file for the others.
KindsOf(path) == IF path \in PlainPaths THEN Kinds ELSE {"modified", "added"}

\* The texts with a leading + or - are tried in the files with plain names.
TextsOf(path) == IF path \in PlainPaths THEN AddTexts \cup DelTexts ELSE {Plain}

StartsOf(kind) ==
    CASE kind = "modified" -> HunkStarts
      [] kind = "added" -> {1}
      [] kind = "deleted" -> {0}
      [] kind = "renamed" -> {}

BodyLinesOf(kind) ==
    LET adds == {BodyLine("add", t) : t \in AddTexts}
        dels == {BodyLine("del", t) : t \in DelTexts}
        nonl == {BodyLine("nonl", <<>>)}
    IN CASE kind = "modified" -> adds \cup dels \cup nonl \cup {BodyLine("ctx", Plain)}
         [] kind = "added" -> adds \cup nonl
         [] kind = "deleted" -> dels \cup nonl
         [] kind = "renamed" -> {}

\* Every hunk has a body and every modified, added or deleted file a hunk.
SectionComplete(sec) ==
    /\ sec.kind # "renamed" => sec.hunks # <<>>
    /\ \A i \in DOMAIN sec.hunks : sec.hunks[i].body # <<>>

Complete(p) == \A s \in DOMAIN p : SectionComplete(p[s])

\* The lines of the text so far, without the closing empty string.
TextSoFar(p) == Concat([i \in DOMAIN p |-> SectionLines(p[i])])

NoRun ==
    /\ variant = "current" /\ issues = <<>> /\ comments = <<>> /\ reviews = <<>>
    /\ nextId = 1 /\ inlineComments = <<>> /\ outlineComment = <<>>
    /\ remoteComments = <<>> /\ commentsToAdd = <<>> /\ commentsToDelete = <<>>
    /\ idx = 0 /\ found = 0 /\ pass = 1 /\ calls = <<>> /\ failed = <<>>

runVars == <<variant, issues, comments, reviews, nextId, inlineComments,
             outlineComment, remoteComments, commentsToAdd, commentsToDelete,
             idx, found, pass, calls, failed>>

InitDiff ==
    /\ pr = <<>>
    /\ diffData = <<>>
    /\ diff = EmptyDiff
    /\ pc = "build"
    /\ NoRun

SetChangeSet(p) ==
    /\ \A s \in DOMAIN p : \A j \in DOMAIN p[s].hunks : HeadingOk(p[s].hunks, j)
    /\ pr' = p
    /\ diffData' = TextSoFar(p)
    /\ diff' = parse(TextSoFar(p))
    /\ UNCHANGED <<pc, runVars>>

AddSection ==
    /\ pc = "build"
    /\ Len(pr) < MaxSections
    /\ Complete(pr)
    /\ \E path \in Paths : \E kind \in KindsOf(path) :
          /\ \A s \in DOMAIN pr : PathRank(pr[s].path) < PathRank(path)
          /\ SetChangeSet(Append(pr, [path |-> path, kind |-> kind, hunks |-> <<>>]))

AddHunk ==
    /\ pc = "build"
    /\ pr # <<>>
    /\ LET sec == Last(pr) IN
          /\ sec.kind # "renamed"
          /\ Len(sec.hunks) < (IF sec.kind = "modified" THEN MaxHunks ELSE 1)
          /\ SectionComplete(sec) \/ sec.hunks = <<>>
          /\ \E c \in StartsOf(sec.kind) : \E heading \in Headings(sec.kind) :
                /\ sec.hunks # <<>> => c > NewEnd(Last(sec.hunks))
                /\ SetChangeSet([pr EXCEPT ![Len(pr)].hunks =
                                     Append(@, [c |-> c, heading |-> heading,
                                                body |-> <<>>])])

AddBodyLine ==
    /\ pc = "build"
    /\ pr # <<>>
    /\ BodyCount(pr) < MaxBodyLines
    /\ LET sec == Last(pr) IN
          /\ sec.hunks # <<>>
          /\ LET body == Last(sec.hunks).body IN
                \E l \in BodyLinesOf(sec.kind) :
                   /\ l.k # "nonl" => l.t \in TextsOf(sec.path)
                   /\ l.k = "nonl" => body # <<>> /\ Last(body).k # "nonl"
                   /\ SetChangeSet([pr EXCEPT ![Len(pr)].hunks[Len(sec.hunks)].body =
                                        Append(@, l)])

FinishDiff ==
    /\ pc = "build"
    /\ Complete(pr)
    /\ pc' = "built"
    /\ diffData' = DiffLines(pr)
    /\ diff' = parse(DiffLines(pr))
    /\ UNCHANGED <<pr, runVars>>

NextDiff == AddSection \/ AddHunk \/ AddBodyLine \/ FinishDiff

SpecDiff == InitDiff /\ [][NextDiff]_vars

(***************************************************************************)
(* The run (src/index.js:3-231 and src/unnamed/part_000:120-245).  Each    *)
(* action is one external call with the synchronous code that follows it   *)
(* up to the next call.  Every external call may fail (throw).             *)
(***************************************************************************)
MaxLog == 2
MaxConv == 2
MaxRev == 1

SeqsUpTo(S, n) == UNION {[1..m -> S] : m \in 0..n}

RawPath(file) == workingDir \o <<"/">> \o file

LogEntry(level, message, file, line) ==
    [match |-> TRUE, level |-> level, message |-> message, path |-> RawPath(file),
     line |-> line, column |-> 1]

\* A line of the log the pattern does not match.
JunkLine ==
    [match |-> FALSE, level |-> "", message |-> <<>>, path |-> NoPath, line |-> 0,
     column |-> 0]

LogEntries ==
    {LogEntry("warning", <<"a">>, <<"f1">>, 2), LogEntry("error", <<"a">>, <<"f1">>, 6),
     LogEntry("info", <<"a">>, <<"f3">>, 2)}

Filler == LogEntry("info", <<"a">>, <<"f3">>, 2)

\* Logs of up to MaxLog findings, one with a line that is no finding, and
\* logs of maxIssues and maxIssues + 1 findings.
AnalyzeLogs ==
    SeqsUpTo(LogEntries, MaxLog)
    \cup {<<JunkLine, Filler>>}
    \cup {[i \in 1..n |-> Filler] : n \in {maxIssues, maxIssues + 1}}

CustomLintFiles ==
    {[state |-> st, diagnostics |-> <<>>] :
        st \in {"absent", "unreadable", "nojson", "malformed", "ok"}}
    \cup {[state |-> "ok",
           diagnostics |-> <<[severity |-> "Warning", problemMessage |-> <<"b">>,
                              file |-> RawPath(f), line |-> 2, column |-> 1]>>] :
             f \in {<<"f1">>, <<"toString">>}}

\* Change sets the diff-source may return, their sections in the order of
\* the names.
SamplePRs ==
    LET hunk(c, body) == [c |-> c, heading |-> <<>>, body |-> body]
        headed(c, body) == [c |-> c, heading |-> Plain, body |-> body]
        sec(path, kind, hunks) == [path |-> path, kind |-> kind, hunks |-> hunks]
        f1 == <<"f1">>
        f2 == <<"f2">>
        add == BodyLine("add", Plain)
        del == BodyLine("del", Plain)
        ctx == BodyLine("ctx", Plain)
        nonl == BodyLine("nonl", <<>>)
        rule == BodyLine("del", <<"-", "-">>)
    IN {<<>>,
        <<sec(f1, "modified", <<hunk(1, <<ctx, add>>)>>)>>,
        <<sec(f2, "modified", <<hunk(1, <<add, add>>)>>)>>,
        <<sec(f1, "modified", <<hunk(1, <<ctx, add>>)>>),
          sec(f2, "deleted", <<hunk(0, <<del>>)>>)>>,
        <<sec(f1, "modified", <<hunk(1, <<ctx, del, nonl, add>>)>>)>>,
        <<sec(f1, "modified", <<headed(2, <<ctx, ctx, ctx, rule, add, add>>)>>)>>,
        <<sec(<<"constructor">>, "added", <<hunk(1, <<add>>)>>),
          sec(<<"my", Sp, "file">>, "modified", <<hunk(1, <<ctx, add>>)>>)>>}

OldIssue == Issue("warning", <<"a">>, <<"f1">>, 2, 1)

\* Bodies of the comments the stores may hold before the run: a reviewer's,
\* and those an earlier run of the same script left.
ConvBodies(v) ==
    {<<"LGTM">>, MaxIssuesBody(maxIssues + 1)}
    \cup (IF v = "current" THEN {generateTableForIssuesNotInDiff(<<OldIssue>>)} ELSE {})

ReviewBodies(v) ==
    {<<"nit">>,
     CASE v = "current" -> Comment(<<OldIssue>>).body
       [] v = "legacy" -> LocalComment(OldIssue).body
       [] v = "readme" -> fromAnalyzerResult(OldIssue).body}

\* A conversation comment and a review comment as the comment-store holds
\* them.
ConvComment(id, body) == [id |-> id, body |-> body]

ReviewComment(id, path, line, body) ==
    [id |-> id, path |-> path, original_line |-> line, line |-> line, body |-> body]

ConvStores(v) ==
    {[i \in DOMAIN bs |-> ConvComment(i, bs[i])] : bs \in SeqsUpTo(ConvBodies(v), MaxConv)}

ReviewStores(v) ==
    {[i \in DOMAIN bs |-> ReviewComment(100 + i, <<"f1">>, 2, bs[i])] :
        bs \in SeqsUpTo(ReviewBodies(v), MaxRev)}

\* An entry of the history of external calls.  For listComments, id is the
\* id of the comment find() picked from the answer (0: none).
Call(op, id, path, line, body, ok) ==
    [op |-> op, id |-> id, path |-> path, line |-> line, body |-> body, ok |-> ok]

SimpleCall(op, ok) == Call(op, 0, NoPath, 0, <<>>, ok)

Init ==
    /\ pr = <<>> /\ diffData = <<>> /\ diff = EmptyDiff
    /\ variant \in {"current", "legacy", "readme"}
    /\ pc = "readAnalyzeLog"
    /\ issues = <<>>
    /\ comments \in ConvStores(variant)
    /\ reviews \in ReviewStores(variant)
    /\ nextId = 200
    /\ inlineComments = <<>> /\ outlineComment = <<>>
    /\ remoteComments = <<>> /\ commentsToAdd = <<>> /\ commentsToDelete = <<>>
    /\ idx = 0 /\ found = 0 /\ pass = 1 /\ calls = <<>> /\ failed = <<>>

\* logError(message); return
Abort(call, message) ==
    /\ calls' = Append(calls, call)
    /\ failed' = Append(failed, message)
    /\ pc' = "done"

RemoveId(store, id) == SelectSeq(store, LAMBDA c : c.id # id)

HasId(store, id) == \E i \in DOMAIN store : store[i].id = id

\* src/index.js:33-41, part_000:122-129, README.md:159-171.  The script of
\* src/README.md has no ceiling: it goes on to the diff.
ReadAnalyzeLogOk ==
    /\ pc = "readAnalyzeLog"
    /\ \E log \in AnalyzeLogs :
          issues' = CASE variant = "current" -> parseAnalyzerOutputs(log, workingDir)
                      [] variant = "legacy" -> parseToIssues(log)
                      [] variant = "readme" -> analyzerResultsOf(log)
    /\ calls' = Append(calls, SimpleCall("readAnalyzeLog", TRUE))
    /\ pc' = CASE variant = "current" -> "readCustomLint"
                [] variant = "legacy" -> "listSummary"
                [] variant = "readme" -> "fetchDiff"
    /\ UNCHANGED <<pr, diffData, diff, variant, comments, reviews, nextId, inlineComments,
                   outlineComment, remoteComments, commentsToAdd, commentsToDelete, idx,
                   found, pass, failed>>

ReadAnalyzeLogFail ==
    /\ pc = "readAnalyzeLog"
    /\ Abort(SimpleCall("readAnalyzeLog", FALSE),
             IF variant = "readme" THEN "Failed to read or parse analyze log"
                                   ELSE "Failed to read analyze log")
    /\ UNCHANGED <<pr, diffData, diff, variant, issues, comments, reviews, nextId,
                   inlineComments, outlineComment, remoteComments, commentsToAdd,
                   commentsToDelete, idx, found, pass>>

\* src/index.js:44-51
ReadCustomLintOk ==
    /\ pc = "readCustomLint"
    /\ \E file \in CustomLintFiles :
          LET r == CustomLintParse(file, workingDir)
          IN /\ ~r.threw
             /\ issues' = issues \o r.issues
    /\ calls' = Append(calls, SimpleCall("readCustomLint", TRUE))
    /\ pc' = "listSummary"
    /\ UNCHANGED <<pr, diffData, diff, variant, comments, reviews, nextId, inlineComments,
                   outlineComment, remoteComments, commentsToAdd, commentsToDelete, idx,
                   found, pass, failed>>

\* The history keeps the state of the file the parser threw on.
ReadCustomLintFail ==
    /\ pc = "readCustomLint"
    /\ \E file \in CustomLintFiles :
          /\ CustomLintParse(file, workingDir).threw
          /\ Abort(Call("readCustomLint", 0, NoPath, 0, <<file.state>>, FALSE),
                   "Failed to read custom lint log")
    /\ UNCHANGED <<pr, diffData, diff, variant, issues, comments, reviews, nextId,
                   inlineComments, outlineComment, remoteComments, commentsToAdd,
                   commentsToDelete, idx, found, pass>>

\* if (issues.length > maxIssues) (src/index.js:75, part_000:152)
AfterSummaryDeleted == IF Len(issues) > maxIssues THEN "createSummary" ELSE "fetchDiff"

\* issues.listComments and find (src/index.js:56-63, part_000:133-140)
ListSummaryOk ==
    /\ pc = "listSummary"
    /\ LET data == FirstPage(comments)
           k == FindFirst(data, maxIssuesCommentHeader)
       IN /\ found' = IF k = 0 THEN 0 ELSE data[k].id
          /\ pc' = IF k = 0 THEN AfterSummaryDeleted ELSE "deleteSummary"
          /\ calls' = Append(calls, Call("listComments", IF k = 0 THEN 0 ELSE data[k].id,
                                         NoPath, 0, <<>>, TRUE))
    /\ UNCHANGED <<pr, diffData, diff, variant, issues, comments, reviews, nextId,
                   inlineComments, outlineComment, remoteComments, commentsToAdd,
                   commentsToDelete, idx, pass, failed>>

ListSummaryFail ==
    /\ pc = "listSummary"
    /\ Abort(SimpleCall("listComments", FALSE), "Failed to delete summary comment")
    /\ UNCHANGED <<pr, diffData, diff, variant, issues, comments, reviews, nextId,
                   inlineComments, outlineComment, remoteComments, commentsToAdd,
                   commentsToDelete, idx, found, pass>>

\* issues.deleteComment (src/index.js:64-68, part_000:141-145)
DeleteSummaryOk ==
    /\ pc = "deleteSummary"
    /\ HasId(comments, found)
    /\ comments' = RemoveId(comments, found)
    /\ calls' = Append(calls, Call("deleteComment", found, NoPath, 0, <<>>, TRUE))
    /\ pc' = AfterSummaryDeleted
    /\ UNCHANGED <<pr, diffData, diff, variant, issues, reviews, nextId, inlineComments,
                   outlineComment, remoteComments, commentsToAdd, commentsToDelete, idx,
                   found, pass, failed>>

DeleteSummaryFail ==
    /\ pc = "deleteSummary"
    /\ Abort(Call("deleteComment", found, NoPath, 0, <<>>, FALSE),
             "Failed to delete summary comment")
    /\ UNCHANGED <<pr, diffData, diff, variant, issues, comments, reviews, nextId,
                   inlineComments, outlineComment, remoteComments, commentsToAdd,
                   commentsToDelete, idx, found, pass>>

\* issues.createComment of the maxIssues summary (src/index.js:77-87,
\* part_000:154-164).  The legacy script reports the excess with logError.
CreateSummaryOk ==
    /\ pc = "createSummary"
    /\ comments' = Append(comments, ConvComment(nextId, MaxIssuesBody(Len(issues))))
    /\ nextId' = nextId + 1
    /\ calls' = Append(calls, Call("createComment", nextId, NoPath, 0,
                                   MaxIssuesBody(Len(issues)), TRUE))
    /\ failed' = IF variant = "legacy"
                 THEN Append(failed, "Number of issues exceeds maximum")
                 ELSE failed
    /\ pc' = "done"
    /\ UNCHANGED <<pr, diffData, diff, variant, issues, reviews, inlineComments,
                   outlineComment, remoteComments, commentsToAdd, commentsToDelete, idx,
                   found, pass>>

\* src/index.js:88-91 returns; part_000:165-167 does not.
CreateSummaryFail ==
    /\ pc = "createSummary"
    /\ calls' = Append(calls, Call("createComment", 0, NoPath, 0,
                                   MaxIssuesBody(Len(issues)), FALSE))
    /\ failed' = Append(failed, IF variant = "current"
                                THEN "Failed to create maxIssues comment"
                                ELSE "Failed to create summary comment")
    /\ pc' = IF variant = "current" THEN "done" ELSE "fetchDiff"
    /\ UNCHANGED <<pr, diffData, diff, variant, issues, comments, reviews, nextId,
                   inlineComments, outlineComment, remoteComments, commentsToAdd,
                   commentsToDelete, idx, found, pass>>

\* src/index.js:118-126
InlineCommentsOf(d, iss) ==
    LET groupedIssues == groupIssuesByLine(filterIssuesByDiff(d, iss).issuesInDiff)
    IN [g \in DOMAIN groupedIssues |-> Comment(groupedIssues[g])]

OutlineCommentOf(d, iss) ==
    LET issuesNotInDiff == filterIssuesByDiff(d, iss).issuesNotInDiff
    IN IF Len(issuesNotInDiff) > 0 THEN generateTableForIssuesNotInDiff(issuesNotInDiff)
                                   ELSE <<>>

\* pulls.get with format diff, then the synchronous synthesis
\* (src/index.js:96-131, part_000:171-186, README.md:173-190).  In the
\* current script neither new Diff nor filterIssuesByDiff throws.
FetchDiffOk ==
    /\ pc = "fetchDiff"
    /\ \E p \in SamplePRs :
          /\ pr' = p
          /\ diffData' = DiffLines(p)
          /\ IF variant = "current"
             THEN /\ ~parse(DiffLines(p)).threw
                  /\ ~filterIssuesByDiff(parse(DiffLines(p)), issues).threw
                  /\ diff' = parse(DiffLines(p))
                  /\ inlineComments' = InlineCommentsOf(parse(DiffLines(p)), issues)
                  /\ outlineComment' = OutlineCommentOf(parse(DiffLines(p)), issues)
                  /\ pc' = "listOutline"
             ELSE /\ diff' = diff
                  /\ inlineComments' =
                        IF variant = "legacy"
                        THEN generateLocalComments(DiffLines(p), issues)
                        ELSE generateReviewComments(DiffLines(p), issues)
                  /\ outlineComment' = <<>>
                  /\ pc' = "listReview"
    /\ calls' = Append(calls, SimpleCall("pulls.get", TRUE))
    /\ UNCHANGED <<variant, issues, comments, reviews, nextId, remoteComments,
                   commentsToAdd, commentsToDelete, idx, found, pass, failed>>

FetchDiffFail ==
    /\ pc = "fetchDiff"
    /\ Abort(SimpleCall("pulls.get", FALSE),
             CASE variant = "current" -> "Failed to retrieve diff"
               [] variant = "legacy" -> "Failed to create local comments"
               [] variant = "readme" -> "Failed to generate review comments")
    /\ UNCHANGED <<pr, diffData, diff, variant, issues, comments, reviews, nextId,
                   inlineComments, outlineComment, remoteComments, commentsToAdd,
                   commentsToDelete, idx, found, pass>>

\* pulls.get answers and new Diff(response.data) throws (src/index.js:107):
\* the catch of src/index.js:109-112 reports and returns; diff is never
\* assigned.
NewDiffFail ==
    /\ pc = "fetchDiff"
    /\ variant = "current"
    /\ \E p \in SamplePRs :
          /\ parse(DiffLines(p)).threw
          /\ pr' = p
          /\ diffData' = DiffLines(p)
    /\ Abort(SimpleCall("pulls.get", TRUE), "Failed to retrieve diff")
    /\ UNCHANGED <<diff, variant, issues, comments, reviews, nextId, inlineComments,
                   outlineComment, remoteComments, commentsToAdd, commentsToDelete,
                   idx, found, pass>>

\* The Diff is built and filterIssuesByDiff throws (src/index.js:118): the
\* catch of src/index.js:128-131 reports and returns.
CreateInlineCommentsFail ==
    /\ pc = "fetchDiff"
    /\ variant = "current"
    /\ \E p \in SamplePRs :
          /\ ~parse(DiffLines(p)).threw
          /\ filterIssuesByDiff(parse(DiffLines(p)), issues).threw
          /\ pr' = p
          /\ diffData' = DiffLines(p)
          /\ diff' = parse(DiffLines(p))
    /\ Abort(SimpleCall("pulls.get", TRUE), "Failed to create inline comments")
    /\ UNCHANGED <<variant, issues, comments, reviews, nextId, inlineComments,
                   outlineComment, remoteComments, commentsToAdd, commentsToDelete,
                   idx, found, pass>>

\* if (outlineComment) (src/index.js:157)
AfterOutlineDeleted == IF outlineComment # <<>> THEN "createOutline" ELSE "listReview"

\* src/index.js:135-144
ListOutlineOk ==
    /\ pc = "listOutline"
    /\ LET data == FirstPage(comments)
           k == FindFirst(data, OutlineMarker)
       IN /\ found' = IF k = 0 THEN 0 ELSE data[k].id
          /\ pc' = IF k = 0 THEN AfterOutlineDeleted ELSE "deleteOutline"
          /\ calls' = Append(calls, Call("listComments", IF k = 0 THEN 0 ELSE data[k].id,
                                         NoPath, 0, <<>>, TRUE))
    /\ UNCHANGED <<pr, diffData, diff, variant, issues, comments, reviews, nextId,
                   inlineComments, outlineComment, remoteComments, commentsToAdd,
                   commentsToDelete, idx, pass, failed>>

ListOutlineFail ==
    /\ pc = "listOutline"
    /\ Abort(SimpleCall("listComments", FALSE), "Failed to delete outline comment")
    /\ UNCHANGED <<pr, diffData, diff, variant, issues, comments, reviews, nextId,
                   inlineComments, outlineComment, remoteComments, commentsToAdd,
                   commentsToDelete, idx, found, pass>>

\* src/index.js:145-149
DeleteOutlineOk ==
    /\ pc = "deleteOutline"
    /\ HasId(comments, found)
    /\ comments' = RemoveId(comments, found)
    /\ calls' = Append(calls, Call("deleteComment", found, NoPath, 0, <<>>, TRUE))
    /\ pc' = AfterOutlineDeleted
    /\ UNCHANGED <<pr, diffData, diff, variant, issues, reviews, nextId, inlineComments,
                   outlineComment, remoteComments, commentsToAdd, commentsToDelete, idx,
                   found, pass, failed>>

DeleteOutlineFail ==
    /\ pc = "deleteOutline"
    /\ Abort(Call("deleteComment", found, NoPath, 0, <<>>, FALSE),
             "Failed to delete outline comment")
    /\ UNCHANGED <<pr, diffData, diff, variant, issues, comments, reviews, nextId,
                   inlineComments, outlineComment, remoteComments, commentsToAdd,
                   commentsToDelete, idx, found, pass>>

\* src/index.js:157-164
CreateOutlineOk ==
    /\ pc = "createOutline"
    /\ comments' = Append(comments, ConvComment(nextId, outlineComment))
    /\ nextId' = nextId + 1
    /\ calls' = Append(calls, Call("createComment", nextId, NoPath, 0, outlineComment, TRUE))
    /\ pc' = "listReview"
    /\ UNCHANGED <<pr, diffData, diff, variant, issues, reviews, inlineComments,
                   outlineComment, remoteComments, commentsToAdd, commentsToDelete, idx,
                   found, pass, failed>>

\* src/index.js:165-168
CreateOutlineFail ==
    /\ pc = "createOutline"
    /\ Abort(Call("createComment", 0, NoPath, 0, outlineComment, FALSE),
             "Failed to create outline comment")
    /\ UNCHANGED <<pr, diffData, diff, variant, issues, comments, reviews, nextId,
                   inlineComments, outlineComment, remoteComments, commentsToAdd,
                   commentsToDelete, idx, found, pass>>

\* Where the two for-of loops stand once `done` items of the add loop (or,
\* in the delete loop, of the delete loop) are behind.
LoopPc(toAdd, toDelete, inAdd, next) ==
    IF inAdd /\ next <= Len(toAdd) THEN "addLoop"
    ELSE IF inAdd /\ Len(toDelete) > 0 THEN "deleteLoop"
    ELSE IF ~inAdd /\ next <= Len(toDelete) THEN "deleteLoop"
    ELSE "done"

\* The page pulls.listReviewComments answers with: the script of
\* src/README.md names no per_page.
ListedPage(store) ==
    IF variant = "readme" THEN Page(store, defaultPerPage) ELSE FirstPage(store)

\* pulls.listReviewComments and the two filters (src/index.js:173-197,
\* part_000:189-212, README.md:192-211)
ListReviewCommentsOk ==
    /\ pc = "listReview"
    /\ LET data == ListedPage(reviews)
           remote == [i \in DOMAIN data |-> RemoteComment(data[i])]
           toAdd == IF variant = "readme" THEN newComments(inlineComments, remote)
                                          ELSE ToAdd(inlineComments, remote)
           toDelete == IF variant = "readme" THEN missingComments(inlineComments, remote)
                                             ELSE ToDelete(inlineComments, remote)
       IN /\ remoteComments' = remote
          /\ commentsToAdd' = toAdd
          /\ commentsToDelete' = toDelete
          /\ pc' = LoopPc(toAdd, toDelete, TRUE, 1)
    /\ idx' = 1
    /\ calls' = Append(calls, SimpleCall("listReviewComments", TRUE))
    /\ UNCHANGED <<pr, diffData, diff, variant, issues, comments, reviews, nextId,
                   inlineComments, outlineComment, found, pass, failed>>

\* Mutant: the catch block reports and does not return.
ListReviewCommentsFail_NoReturn ==
    /\ pc = "listReview"
    /\ calls' = Append(calls, SimpleCall("listReviewComments", FALSE))
    /\ failed' = Append(failed, "Failed to parse remote comments")
    /\ remoteComments' = <<>>
    /\ commentsToAdd' = inlineComments
    /\ commentsToDelete' = <<>>
    /\ idx' = 1
    /\ pc' = LoopPc(inlineComments, <<>>, TRUE, 1)
    /\ UNCHANGED <<pr, diffData, diff, variant, issues, comments, reviews, nextId,
                   inlineComments, outlineComment, found, pass>>

ListReviewCommentsFail ==
    /\ pc = "listReview"
    /\ Abort(SimpleCall("listReviewComments", FALSE),
             IF variant = "readme" THEN "Failed to retrive review comments"
                                   ELSE "Failed to parse remote comments")
    /\ UNCHANGED <<pr, diffData, diff, variant, issues, comments, reviews, nextId,
                   inlineComments, outlineComment, remoteComments, commentsToAdd,
                   commentsToDelete, idx, found, pass>>

\* Mutant: the remote comments are listed again after every create.
AdvanceAdd_Requery ==
    /\ pc' = "listReview"
    /\ idx' = 1

AdvanceAdd ==
    /\ pc' = LoopPc(commentsToAdd, commentsToDelete, TRUE, idx + 1)
    /\ idx' = IF idx + 1 <= Len(commentsToAdd) THEN idx + 1 ELSE 1

\* pulls.createReviewComment in the add loop (src/index.js:200-215,
\* part_000:215-229)
CreateReviewCommentOk ==
    /\ pc = "addLoop"
    /\ LET comment == commentsToAdd[idx]
       IN /\ reviews' = Append(reviews, ReviewComment(nextId, comment.path, comment.line,
                                                      comment.body))
          /\ calls' = Append(calls, Call("createReviewComment", nextId, comment.path,
                                         comment.line, comment.body, TRUE))
    /\ nextId' = nextId + 1
    /\ AdvanceAdd
    /\ UNCHANGED <<pr, diffData, diff, variant, issues, comments, inlineComments,
                   outlineComment, remoteComments, commentsToAdd, commentsToDelete,
                   found, pass, failed>>

\* The catch of src/index.js:212-214 and part_000:226-228.
CreateReviewCommentFail ==
    /\ pc = "addLoop"
    /\ variant # "readme"
    /\ LET comment == commentsToAdd[idx]
       IN calls' = Append(calls, Call("createReviewComment", 0, comment.path,
                                      comment.line, comment.body, FALSE))
    /\ failed' = Append(failed, "Failed to add comment")
    /\ AdvanceAdd
    /\ UNCHANGED <<pr, diffData, diff, variant, issues, comments, reviews, nextId,
                   inlineComments, outlineComment, remoteComments, commentsToAdd,
                   commentsToDelete, found, pass>>

\* The loop of src/README.md:214-224 has no try/catch and run() is called
\* without await (README.md:238): the rejection ends the run, nothing is
\* reported to core.setFailed and the remaining items are not attempted.
CreateReviewCommentReject ==
    /\ pc = "addLoop"
    /\ variant = "readme"
    /\ LET comment == commentsToAdd[idx]
       IN calls' = Append(calls, Call("createReviewComment", 0, comment.path,
                                      comment.line, comment.body, FALSE))
    /\ pc' = "done"
    /\ UNCHANGED <<pr, diffData, diff, variant, issues, comments, reviews, nextId,
                   inlineComments, outlineComment, remoteComments, commentsToAdd,
                   commentsToDelete, idx, found, pass, failed>>

AdvanceDelete ==
    /\ pc' = LoopPc(commentsToAdd, commentsToDelete, FALSE, idx + 1)
    /\ idx' = idx + 1

\* pulls.deleteReviewComment in the delete loop (src/index.js:218-228,
\* part_000:232-242)
DeleteReviewCommentOk ==
    /\ pc = "deleteLoop"
    /\ LET comment == commentsToDelete[idx]
       IN /\ HasId(reviews, comment.id)
          /\ reviews' = RemoveId(reviews, comment.id)
          /\ calls' = Append(calls, Call("deleteReviewComment", comment.id, comment.path,
                                         comment.line, comment.body, TRUE))
    /\ AdvanceDelete
    /\ UNCHANGED <<pr, diffData, diff, variant, issues, comments, nextId, inlineComments,
                   outlineComment, remoteComments, commentsToAdd, commentsToDelete,
                   found, pass, failed>>

\* The catch of src/index.js:225-227 and part_000:239-241.
DeleteReviewCommentFail ==
    /\ pc = "deleteLoop"
    /\ variant # "readme"
    /\ LET comment == commentsToDelete[idx]
       IN calls' = Append(calls, Call("deleteReviewComment", comment.id, comment.path,
                                      comment.line, comment.body, FALSE))
    /\ failed' = Append(failed, "Failed to delete comment")
    /\ AdvanceDelete
    /\ UNCHANGED <<pr, diffData, diff, variant, issues, comments, reviews, nextId,
                   inlineComments, outlineComment, remoteComments, commentsToAdd,
                   commentsToDelete, found, pass>>

\* The loop of src/README.md:227-233, without try/catch.
DeleteReviewCommentReject ==
    /\ pc = "deleteLoop"
    /\ variant = "readme"
    /\ LET comment == commentsToDelete[idx]
       IN calls' = Append(calls, Call("deleteReviewComment", comment.id, comment.path,
                                      comment.line, comment.body, FALSE))
    /\ pc' = "done"
    /\ UNCHANGED <<pr, diffData, diff, variant, issues, comments, reviews, nextId,
                   inlineComments, outlineComment, remoteComments, commentsToAdd,
                   commentsToDelete, idx, found, pass, failed>>

Next ==
    \/ ReadAnalyzeLogOk \/ ReadAnalyzeLogFail
    \/ ReadCustomLintOk \/ ReadCustomLintFail
    \/ ListSummaryOk \/ ListSummaryFail
    \/ DeleteSummaryOk \/ DeleteSummaryFail
    \/ CreateSummaryOk \/ CreateSummaryFail
    \/ FetchDiffOk \/ FetchDiffFail
    \/ NewDiffFail \/ CreateInlineCommentsFail
    \/ ListOutlineOk \/ ListOutlineFail
    \/ DeleteOutlineOk \/ DeleteOutlineFail
    \/ CreateOutlineOk \/ CreateOutlineFail
    \/ ListReviewCommentsOk \/ ListReviewCommentsFail
    \/ CreateReviewCommentOk \/ CreateReviewCommentFail \/ CreateReviewCommentReject
    \/ DeleteReviewCommentOk \/ DeleteReviewCommentFail \/ DeleteReviewCommentReject

Spec == Init /\ [][Next]_vars

(***************************************************************************)
(* SpecRecon: the reconciliation on its own (src/index.js:171-228), from   *)
(* any desired sequence and any remote store, with every call succeeding,  *)
(* and then run a second time against the store the first pass left.       *)
(***************************************************************************)
MaxRecon == 2

ReconIssues ==
    {Issue("warning", m, <<"f1">>, 2, 1) : m \in {<<"a">>, <<"b">>, <<"a", "b">>}}
    \cup {Issue("warning", <<"a">>, <<"f2">>, 2, 1), Issue("warning", <<"a">>, <<"f1">>, 6, 1)}

ReconComments == {Comment(<<x>>) : x \in ReconIssues}

ReconStores ==
    {[i \in DOMAIN cs |-> ReviewComment(100 + i, cs[i].path, cs[i].line, cs[i].body)] :
        cs \in SeqsUpTo(ReconComments, MaxRecon)}

InitRecon ==
    /\ pr = <<>> /\ diffData = <<>> /\ diff = EmptyDiff
    /\ variant = "current"
    /\ pc = "listReview"
    /\ issues = <<>>
    /\ comments = <<>>
    /\ reviews \in ReconStores
    /\ nextId = 200
    /\ inlineComments \in SeqsUpTo(ReconComments, MaxRecon)
    /\ outlineComment = <<>>
    /\ remoteComments = <<>> /\ commentsToAdd = <<>> /\ commentsToDelete = <<>>
    /\ idx = 0 /\ found = 0 /\ pass = 1 /\ calls = <<>> /\ failed = <<>>

\* The same desired comments are reconciled again.
Rerun ==
    /\ pc = "done"
    /\ pass = 1
    /\ pass' = 2
    /\ pc' = "listReview"
    /\ UNCHANGED <<pr, diffData, diff, variant, issues, comments, reviews, nextId,
                   inlineComments, outlineComment, remoteComments, commentsToAdd,
                   commentsToDelete, idx, found, calls, failed>>

NextRecon ==
    \/ ListReviewCommentsOk
    \/ CreateReviewCommentOk
    \/ DeleteReviewCommentOk
    \/ Rerun

SpecRecon == InitRecon /\ [][NextRecon]_vars

(***************************************************************************)
(* SpecConc: two runs of the reconciliation (src/index.js:171-228) on the  *)
(* same pull request, with the same desired comments, interleaved at their *)
(* comment-store calls.  The store is shared; pc, the snapshot, the two    *)
(* lists, the loop index and the histories are per run.  A call fails only *)
(* where the store must refuse it: the deletion of a comment that is gone. *)
(***************************************************************************)
Runs == {1, 2}

\* Desired comments as the grouping makes them: one per (path, line).
DistinctCoordinates(cs) ==
    \A i, j \in DOMAIN cs : i # j => (cs[i].path # cs[j].path \/ cs[i].line # cs[j].line)

\* The store before the two runs holds no comment twice.
NoCopies(store) ==
    \A i, j \in DOMAIN store :
        i # j => (\/ store[i].path # store[j].path
                  \/ store[i].line # store[j].line
                  \/ store[i].body # store[j].body)

InitConc ==
    /\ pr = <<>> /\ diffData = <<>> /\ diff = EmptyDiff
    /\ variant = "current"
    /\ pc = [r \in Runs |-> "listReview"]
    /\ issues = <<>>
    /\ comments = <<>>
    /\ reviews \in {store \in ReconStores : NoCopies(store)}
    /\ nextId = 200
    /\ inlineComments \in {cs \in SeqsUpTo(ReconComments, MaxRecon) : DistinctCoordinates(cs)}
    /\ outlineComment = <<>>
    /\ remoteComments = [r \in Runs |-> <<>>]
    /\ commentsToAdd = [r \in Runs |-> <<>>]
    /\ commentsToDelete = [r \in Runs |-> <<>>]
    /\ idx = [r \in Runs |-> 0]
    /\ found = 0 /\ pass = 1
    /\ calls = [r \in Runs |-> <<>>]
    /\ failed = [r \in Runs |-> <<>>]

\* src/index.js:173-197
ConcListReviewComments(r) ==
    /\ pc[r] = "listReview"
    /\ LET data == FirstPage(reviews)
           remote == [i \in DOMAIN data |-> RemoteComment(data[i])]
       IN /\ remoteComments' = [remoteComments EXCEPT ![r] = remote]
          /\ commentsToAdd' = [commentsToAdd EXCEPT ![r] = ToAdd(inlineComments, remote)]
          /\ commentsToDelete' = [commentsToDelete EXCEPT ![r] = ToDelete(inlineComments, remote)]
          /\ pc' = [pc EXCEPT ![r] = LoopPc(ToAdd(inlineComments, remote),
                                            ToDelete(inlineComments, remote), TRUE, 1)]
    /\ idx' = [idx EXCEPT ![r] = 1]
    /\ calls' = [calls EXCEPT ![r] = Append(@, SimpleCall("listReviewComments", TRUE))]
    /\ UNCHANGED <<pr, diffData, diff, variant, issues, comments, reviews, nextId,
                   inlineComments, outlineComment, found, pass, failed>>

\* src/index.js:200-215
ConcCreateReviewComment(r) ==
    /\ pc[r] = "addLoop"
    /\ LET comment == commentsToAdd[r][idx[r]]
       IN /\ reviews' = Append(reviews, ReviewComment(nextId, comment.path, comment.line,
                                                      comment.body))
          /\ calls' = [calls EXCEPT ![r] =
                          Append(@, Call("createReviewComment", nextId, comment.path,
                                         comment.line, comment.body, TRUE))]
    /\ nextId' = nextId + 1
    /\ pc' = [pc EXCEPT ![r] = LoopPc(commentsToAdd[r], commentsToDelete[r], TRUE, idx[r] + 1)]
    /\ idx' = [idx EXCEPT ![r] = IF idx[r] + 1 <= Len(commentsToAdd[r]) THEN idx[r] + 1 ELSE 1]
    /\ UNCHANGED <<pr, diffData, diff, variant, issues, comments, inlineComments,
                   outlineComment, remoteComments, commentsToAdd, commentsToDelete,
                   found, pass, failed>>

\* src/index.js:218-224
ConcDeleteReviewComment(r) ==
    /\ pc[r] = "deleteLoop"
    /\ LET comment == commentsToDelete[r][idx[r]]
       IN /\ HasId(reviews, comment.id)
          /\ reviews' = RemoveId(reviews, comment.id)
          /\ calls' = [calls EXCEPT ![r] =
                          Append(@, Call("deleteReviewComment", comment.id, comment.path,
                                         comment.line, comment.body, TRUE))]
    /\ pc' = [pc EXCEPT ![r] = LoopPc(commentsToAdd[r], commentsToDelete[r], FALSE, idx[r] + 1)]
    /\ idx' = [idx EXCEPT ![r] = idx[r] + 1]
    /\ UNCHANGED <<pr, diffData, diff, variant, issues, comments, nextId, inlineComments,
                   outlineComment, remoteComments, commentsToAdd, commentsToDelete,
                   found, pass, failed>>

\* src/index.js:225-227: the other run has deleted the comment already.
ConcDeleteReviewCommentFail(r) ==
    /\ pc[r] = "deleteLoop"
    /\ LET comment == commentsToDelete[r][idx[r]]
       IN /\ ~HasId(reviews, comment.id)
          /\ calls' = [calls EXCEPT ![r] =
                          Append(@, Call("deleteReviewComment", comment.id, comment.path,
                                         comment.line, comment.body, FALSE))]
    /\ failed' = [failed EXCEPT ![r] = Append(@, "Failed to delete comment")]
    /\ pc' = [pc EXCEPT ![r] = LoopPc(commentsToAdd[r], commentsToDelete[r], FALSE, idx[r] + 1)]
    /\ idx' = [idx EXCEPT ![r] = idx[r] + 1]
    /\ UNCHANGED <<pr, diffData, diff, variant, issues, comments, reviews, nextId,
                   inlineComments, outlineComment, remoteComments, commentsToAdd,
                   commentsToDelete, found, pass>>

NextConc ==
    \/ \E r \in Runs : ConcListReviewComments(r)
    \/ \E r \in Runs : ConcCreateReviewComment(r)
    \/ \E r \in Runs : ConcDeleteReviewComment(r)
    \/ \E r \in Runs : ConcDeleteReviewCommentFail(r)

SpecConc == InitConc /\ [][NextConc]_vars

(***************************************************************************)
(* SpecPath: one finding whose path is any path of up to MaxSegs segments, *)
(* with either separator between any two of them, absolute (under the      *)
(* working directory) or relative, is read from the analyzer log           *)
(* (src/index.js:336-350) or from the custom-lint log                      *)
(* (src/index.js:425-433).  The history keeps the path as the log had it.  *)
(***************************************************************************)
MaxSegs == 3

Separators == {"/", "\\"}

Segments == {<<"a">>, <<"b">>}

RECURSIVE RelPaths(_)
RelPaths(n) ==
    IF n = 1 THEN Segments
    ELSE {p \o <<sep>> \o s : p \in RelPaths(n - 1), sep \in Separators, s \in Segments}

LogPaths ==
    LET rel == UNION {RelPaths(n) : n \in 1..MaxSegs}
    IN rel \cup {workingDir \o <<sep>> \o p : sep \in Separators, p \in rel}

InitPath ==
    /\ pr = <<>> /\ diffData = <<>> /\ diff = EmptyDiff
    /\ pc = "parsePath"
    /\ NoRun

ParseLogPath ==
    /\ pc = "parsePath"
    /\ \E raw \in LogPaths :
          /\ issues' = parseAnalyzerOutputs(
                          <<[match |-> TRUE, level |-> "info", message |-> <<"a">>,
                             path |-> raw, line |-> 1, column |-> 1]>>, workingDir)
          /\ calls' = Append(calls, Call("parseAnalyzerOutputs", 0, raw, 1, <<>>, TRUE))
    /\ pc' = "parsed"
    /\ UNCHANGED <<pr, diffData, diff, variant, comments, reviews, nextId, inlineComments,
                   outlineComment, remoteComments, commentsToAdd, commentsToDelete, idx,
                   found, pass, failed>>

ParseLintPath ==
    /\ pc = "parsePath"
    /\ \E raw \in LogPaths :
          /\ issues' = CustomLintParse(
                          [state |-> "ok",
                           diagnostics |-> <<[severity |-> "INFO", problemMessage |-> <<"a">>,
                                              file |-> raw, line |-> 1, column |-> 1]>>],
                          workingDir).issues
          /\ calls' = Append(calls, Call("CustomLintParser.parse", 0, raw, 1, <<>>, TRUE))
    /\ pc' = "parsed"
    /\ UNCHANGED <<pr, diffData, diff, variant, comments, reviews, nextId, inlineComments,
                   outlineComment, remoteComments, commentsToAdd, commentsToDelete, idx,
                   found, pass, failed>>

NextPath == ParseLogPath \/ ParseLintPath

SpecPath == InitPath /\ [][NextPath]_vars

\* Paths and line numbers a query can name.
QueryPaths == Paths \cup {NoPath, <<"f3">>}
QueryLines == 0..(Max(HunkStarts) + MaxBodyLines + 8)

(***************************************************************************)
(* C1: once the Diff index is built, fileHasChange(F, n) is true if and    *)
(* only if some hunk of F's section contains an added line whose           *)
(* new-revision number is n.                                               *)
(***************************************************************************)
C1_IndexIsExactlyAddedLines ==
    pc = "built" =>
        /\ ~diff.threw
        /\ \A f \in QueryPaths, n \in QueryLines :
               (fileHasChange(diff, f, n) = "true") <=> n \in AddedLines(pr, f)

(***************************************************************************)
(* Helpers of the claims.                                                  *)
(***************************************************************************)
SameTriple(a, b) == a.path = b.path /\ a.line = b.line /\ a.body = b.body

Reconciled == pc \in {"addLoop", "deleteLoop", "done"} /\ Len(calls) > 0

CallsOf(op) == {i \in DOMAIN calls : calls[i].op = op}

StoreOps ==
    {"listComments", "deleteComment", "createComment", "listReviewComments",
     "createReviewComment", "deleteReviewComment"}

(***************************************************************************)
(* C2: toAdd is exactly the desired comments no remote comment equals in   *)
(* (path, line, body), and toDelete exactly the remote comments no desired *)
(* comment equals; so toAdd shares nothing with remote, toDelete is part   *)
(* of remote and shares nothing with desired, and an equal pair is in      *)
(* neither list.                                                           *)
(***************************************************************************)
C2_ReconcileIsSetDifference ==
    Reconciled =>
        LET addIdx == {i \in DOMAIN inlineComments :
                          \A r \in DOMAIN remoteComments :
                              ~SameTriple(inlineComments[i], remoteComments[r])}
            delIdx == {r \in DOMAIN remoteComments :
                          \A i \in DOMAIN inlineComments :
                              ~SameTriple(inlineComments[i], remoteComments[r])}
        IN /\ Range(commentsToAdd) = {inlineComments[i] : i \in addIdx}
           /\ Len(commentsToAdd) = Cardinality(addIdx)
           /\ Range(commentsToDelete) = {remoteComments[r] : r \in delIdx}
           /\ Len(commentsToDelete) = Cardinality(delIdx)
           /\ \A a \in DOMAIN commentsToAdd, r \in DOMAIN remoteComments :
                 ~SameTriple(commentsToAdd[a], remoteComments[r])
           /\ \A d \in DOMAIN commentsToDelete, i \in DOMAIN inlineComments :
                 ~SameTriple(commentsToDelete[d], inlineComments[i])
           /\ \A i \in DOMAIN inlineComments, r \in DOMAIN remoteComments :
                 SameTriple(inlineComments[i], remoteComments[r]) =>
                     /\ inlineComments[i] \notin Range(commentsToAdd)
                     /\ remoteComments[r] \notin Range(commentsToDelete)

\* A reconciliation with something to add, something to delete and an equal
\* pair left alone.
C2_Witness ==
    /\ pass = 1 /\ pc = "addLoop" /\ idx = 1
    /\ commentsToAdd # <<>> /\ commentsToDelete # <<>>
    /\ \E i \in DOMAIN inlineComments, r \in DOMAIN remoteComments :
          SameTriple(inlineComments[i], remoteComments[r])

(***************************************************************************)
(* C3: idempotence.  Once the adds and deletes of a first reconciliation   *)
(* have been applied to the remote store, a second reconciliation of the   *)
(* same desired comments finds nothing to add and nothing to delete.       *)
(***************************************************************************)
C3_SecondPassIsEmpty ==
    (pass = 2 /\ pc # "listReview") =>
        /\ commentsToAdd = <<>>
        /\ commentsToDelete = <<>>
        /\ pc = "done"

\* The second pass is over after a first pass that created and deleted, with
\* a duplicate among the desired comments.
C3_Witness ==
    /\ pass = 2 /\ pc = "done"
    /\ CallsOf("createReviewComment") # {} /\ CallsOf("deleteReviewComment") # {}
    /\ Cardinality(CallsOf("listReviewComments")) = 2
    /\ \E i, j \in DOMAIN inlineComments : i # j /\ inlineComments[i] = inlineComments[j]

(***************************************************************************)
(* C6: two findings at the same (file, line) and of the same severity      *)
(* whose messages differ in one character render to different bodies, so   *)
(* a remote comment rendered from the old message never matches the        *)
(* desired comment rendered from the new one: the old one is deleted and   *)
(* the new one added (where the remote holds no copy of the new comment    *)
(* and desired none of the old one).                                       *)
(***************************************************************************)
\* One substitution, one insertion or one deletion apart.
OneCharApart(m, n) ==
    \/ /\ Len(m) = Len(n)
       /\ Cardinality({i \in DOMAIN m : m[i] # n[i]}) = 1
    \/ /\ Len(n) = Len(m) + 1
       /\ \E k \in DOMAIN n : m = SubSeq(n, 1, k - 1) \o SubSeq(n, k + 1, Len(n))
    \/ /\ Len(m) = Len(n) + 1
       /\ \E k \in DOMAIN m : n = SubSeq(m, 1, k - 1) \o SubSeq(m, k + 1, Len(m))

MessageChanged(old, new) ==
    /\ old.file = new.file /\ old.line = new.line /\ old.level = new.level
    /\ OneCharApart(old.message, new.message)

C6_MessageChangeIsDeleteAndAdd ==
    \A old \in ReconIssues, new \in ReconIssues :
        MessageChanged(old, new) =>
            /\ Comment(<<old>>).body # Comment(<<new>>).body
            /\ Reconciled =>
                 \A i \in DOMAIN inlineComments, r \in DOMAIN remoteComments :
                     (/\ SameTriple(inlineComments[i], Comment(<<new>>))
                      /\ SameTriple(remoteComments[r], Comment(<<old>>))) =>
                         /\ ~matchesLocalComment(remoteComments[r], inlineComments[i])
                         /\ (\A j \in DOMAIN inlineComments :
                                ~SameTriple(inlineComments[j], Comment(<<old>>)))
                            => remoteComments[r] \in Range(commentsToDelete)
                         /\ (\A q \in DOMAIN remoteComments :
                                ~SameTriple(remoteComments[q], Comment(<<new>>)))
                            => inlineComments[i] \in Range(commentsToAdd)

\* The remote store holds the comment of the old message, desired the one of
\* the new message, and the reconciliation deleted the one and created the
\* other.
C6_Witness ==
    /\ pass = 1 /\ pc = "done"
    /\ Len(inlineComments) = 1 /\ Len(remoteComments) = 1
    /\ \E old \in ReconIssues, new \in ReconIssues :
          /\ MessageChanged(old, new)
          /\ SameTriple(inlineComments[1], Comment(<<new>>))
          /\ SameTriple(remoteComments[1], Comment(<<old>>))
          /\ \E c \in CallsOf("createReviewComment") : calls[c].body = Comment(<<new>>).body
          /\ \E d \in CallsOf("deleteReviewComment") : calls[d].id = remoteComments[1].id

(***************************************************************************)
(* Helpers of the claims about a run.                                      *)
(***************************************************************************)
IsSummaryCreate(c) == c.op = "createComment" /\ Includes(c.body, maxIssuesCommentHeader)

SummaryCreates == {i \in DOMAIN calls : IsSummaryCreate(calls[i])}

\* The run went through every step: it is over, no call failed and nothing
\* was reported.
CleanRun == pc = "done" /\ failed = <<>> /\ \A i \in DOMAIN calls : calls[i].ok

IssuesAt(f, n) == SelectSeq(issues, LAMBDA x : x.file = f /\ x.line = n)

\* The (file, line) pairs of the findings that lie on an added line of the
\* change set.
OnAddedLine == {<<x.file, x.line>> : x \in {y \in Range(issues) : y.line \in AddedLines(pr, y.file)}}

(***************************************************************************)
(* C4: with more findings than the ceiling, the run creates exactly one    *)
(* ceiling-exceeded summary comment and after it fetches no diff and makes *)
(* no comment-store call, whether the creation succeeded or failed.        *)
(***************************************************************************)
C4_NothingAfterSummary ==
    /\ Cardinality(SummaryCreates) <= 1
    /\ \A i \in SummaryCreates :
          \A j \in (i + 1)..Len(calls) : calls[j].op \notin StoreOps \cup {"pulls.get"}
    /\ (pc = "done" /\ Len(issues) > maxIssues /\ Last(calls).op = "createComment")
          => Cardinality(SummaryCreates) = 1

(***************************************************************************)
(* C5: in a run below the ceiling in which no call fails,                  *)
(* createReviewComment is called exactly once for each (file, line) where  *)
(* a finding lies on an added line of the diff and no structurally equal   *)
(* remote comment exists, with that path and line, and is never called     *)
(* for a finding whose file is absent from the diff or whose line is not   *)
(* an added line.                                                          *)
(***************************************************************************)
C5_CommentsExactlyOnAddedLines ==
    (variant = "current" /\ CleanRun /\ Len(issues) <= maxIssues) =>
        /\ \A fn \in OnAddedLine :
              (\A r \in DOMAIN remoteComments :
                  ~SameTriple(remoteComments[r], Comment(IssuesAt(fn[1], fn[2]))))
              => Cardinality({i \in CallsOf("createReviewComment") :
                                 calls[i].path = fn[1] /\ calls[i].line = fn[2]}) = 1
        /\ \A i \in CallsOf("createReviewComment") :
              <<calls[i].path, calls[i].line>> \in OnAddedLine

(***************************************************************************)
(* C7: in every run the previous ceiling-exceeded summary (the             *)
(* conversation comment with the maxIssues marker) is looked up and        *)
(* deleted before the finding count is compared with the ceiling, and the  *)
(* lookup is made in every run, whatever the reading of the analyzer log   *)
(* and of the custom-lint log produced.                                    *)
(***************************************************************************)
\* The scripts that have a ceiling; the script of src/README.md compares
\* the count with nothing and has no summary.
HasCeiling == variant \in {"current", "legacy"}

\* The position of the first listComments call: the lookup of the summary.
FirstList == CHOOSE i \in CallsOf("listComments") : \A j \in CallsOf("listComments") : i <= j

\* The count is compared after the lookup: a summary is created, or the
\* diff fetched, only after the first listComments call has answered and
\* the comment find() picked from its answer has been deleted.
LookupBeforeCountCheck ==
    \A j \in DOMAIN calls :
        (IsSummaryCreate(calls[j]) \/ calls[j].op = "pulls.get") =>
            /\ CallsOf("listComments") # {}
            /\ FirstList < j
            /\ calls[FirstList].ok
            /\ calls[FirstList].id # 0 =>
                  /\ FirstList + 1 < j
                  /\ calls[FirstList + 1].op = "deleteComment"
                  /\ calls[FirstList + 1].id = calls[FirstList].id
                  /\ calls[FirstList + 1].ok
                  /\ \A c \in DOMAIN comments : comments[c].id # calls[FirstList].id

\* The lookup was made in the run that is over.
LookupInEveryRun == pc = "done" => CallsOf("listComments") # {}

C7_DeletionInEveryRun == HasCeiling => (LookupInEveryRun /\ LookupBeforeCountCheck)

(***************************************************************************)
(* C8: after a run at or below the ceiling in which no call fails, the     *)
(* conversation holds no comment with the maxIssues marker, whatever the   *)
(* store held before.                                                      *)
(***************************************************************************)
C8_NoStaleSummary ==
    (CleanRun /\ Len(issues) <= maxIssues) =>
        \A c \in DOMAIN comments : ~Includes(comments[c].body, maxIssuesCommentHeader)

(***************************************************************************)
(* C9: after a run in which no call fails (here: one at or below the       *)
(* ceiling), the conversation holds exactly one comment with the outline   *)
(* marker when the run has out-of-diff findings, with the body rendered    *)
(* from them, and none when it has not, whatever the store held before.    *)
(***************************************************************************)
C9_OneFreshOutline ==
    (variant = "current" /\ CleanRun /\ Len(issues) <= maxIssues) =>
        LET outlines == {c \in DOMAIN comments : Includes(comments[c].body, OutlineMarker)}
            notInDiff == filterIssuesByDiff(diff, issues).issuesNotInDiff
        IN IF notInDiff # <<>>
           THEN /\ Cardinality(outlines) = 1
                /\ \A c \in outlines :
                      comments[c].body = generateTableForIssuesNotInDiff(notInDiff)
           ELSE outlines = {}

(***************************************************************************)
(* C10: when reading the analyzer log, fetching the diff, listing the      *)
(* conversation comments or listing the review comments fails, the run     *)
(* reports the failure with core.setFailed and makes no further call: the  *)
(* failed call is the last one and the run is over.                        *)
(***************************************************************************)
RequiredOps == {"readAnalyzeLog", "pulls.get", "listComments", "listReviewComments"}

C10_RequiredStageFailureAborts ==
    \A i \in DOMAIN calls :
        (calls[i].op \in RequiredOps /\ ~calls[i].ok) =>
            /\ i = Len(calls)
            /\ pc = "done"
            /\ failed # <<>>
            /\ Last(failed) \in
                  {"Failed to read analyze log", "Failed to retrieve diff",
                   "Failed to create local comments", "Failed to delete summary comment",
                   "Failed to delete outline comment", "Failed to parse remote comments",
                   "Failed to read or parse analyze log",
                   "Failed to generate review comments",
                   "Failed to retrive review comments"}

\* The listing of the review comments failed after the run had already
\* written to the store.
C10_Witness ==
    /\ pc = "done"
    /\ Last(calls).op = "listReviewComments" /\ ~Last(calls).ok
    /\ \E i \in CallsOf("createComment") : calls[i].ok

(***************************************************************************)
(* Helpers of the claims about the two loops.                              *)
(***************************************************************************)
\* The position of the successful listing of the review comments; 0 when
\* there is none.
ListedAt ==
    IF \E i \in CallsOf("listReviewComments") : calls[i].ok
    THEN CHOOSE i \in CallsOf("listReviewComments") : calls[i].ok
    ELSE 0

IsOutlineCreate(c) == c.op = "createComment" /\ Includes(c.body, OutlineMarker)

ReviewMutations == {"createReviewComment", "deleteReviewComment"}

\* Once the run is over, the calls after the listing are one create attempt
\* per comment of commentsToAdd, in order, then one delete attempt per comment
\* of commentsToDelete, in order, whichever of them failed.
LoopsAttemptEveryItem ==
    (pc = "done" /\ ListedAt # 0) =>
        LET k == ListedAt
            n == Len(commentsToAdd)
            m == Len(commentsToDelete)
        IN /\ Len(calls) = k + n + m
           /\ \A i \in 1..n :
                 /\ calls[k + i].op = "createReviewComment"
                 /\ SameTriple(calls[k + i], commentsToAdd[i])
           /\ \A j \in 1..m :
                 /\ calls[k + n + j].op = "deleteReviewComment"
                 /\ calls[k + n + j].id = commentsToDelete[j].id

\* A failed creation of the out-of-diff summary is followed by the listing
\* of the review comments.
OutlineFailureDoesNotStop ==
    \A i \in DOMAIN calls :
        (IsOutlineCreate(calls[i]) /\ ~calls[i].ok /\ pc = "done") =>
            \E j \in CallsOf("listReviewComments") : j > i

(***************************************************************************)
(* C11: a failed create or delete of one comment is reported and does not  *)
(* stop the remaining items: every comment of toAdd gets exactly one       *)
(* create attempt and every comment of toDelete exactly one delete         *)
(* attempt, whatever calls fail, and a failed creation of the out-of-diff  *)
(* summary comment does not keep the line-comment creates and deletes from *)
(* being attempted.                                                        *)
(***************************************************************************)
C11_MutationFailuresDoNotStop ==
    /\ LoopsAttemptEveryItem
    /\ OutlineFailureDoesNotStop

(***************************************************************************)
(* C12 as claimed: in every run the review comments are listed exactly     *)
(* once.                                                                   *)
(***************************************************************************)
C12_Original_ListedExactlyOnceInEveryRun ==
    pc = "done" => Cardinality(CallsOf("listReviewComments")) = 1

(***************************************************************************)
(* C12 as amended: a run that ends before the listing step never lists the *)
(* review comments; a run that gets to the listing step lists them exactly *)
(* once, before the first createReviewComment or deleteReviewComment call; *)
(* toAdd and toDelete are computed from the answer of that listing, and    *)
(* between the listing and the last mutation the store is not queried and  *)
(* the snapshot and the two lists do not change.                           *)
(***************************************************************************)
SnapshotOf(store) == [i \in DOMAIN ListedPage(store) |-> RemoteComment(ListedPage(store)[i])]

Listings == Cardinality(CallsOf("listReviewComments"))

ListedOnceBeforeMutations ==
    /\ Listings <= 1
    /\ pc \in {"addLoop", "deleteLoop"} => Listings = 1
    /\ Listings = 1 => pc \in {"addLoop", "deleteLoop", "done"}
    /\ \A j \in DOMAIN calls :
          calls[j].op \in ReviewMutations => (ListedAt # 0 /\ ListedAt < j)
    /\ ListedAt # 0 =>
          /\ \A j \in (ListedAt + 1)..Len(calls) : calls[j].op \in ReviewMutations
          /\ commentsToAdd = SelectSeq(inlineComments,
                LAMBDA l : \A r \in DOMAIN remoteComments : ~SameTriple(l, remoteComments[r]))
          /\ commentsToDelete = SelectSeq(remoteComments,
                LAMBDA r : \A l \in DOMAIN inlineComments : ~SameTriple(inlineComments[l], r))

\* The step the run takes at the listing step is the listing, and no other
\* step lists.
ListingStep ==
    /\ pc = "listReview" =>
          /\ Len(calls') = Len(calls) + 1
          /\ Last(calls').op = "listReviewComments"
          /\ Listings' = 1
    /\ Listings' # Listings => pc = "listReview"

SnapshotIsTheListing ==
    /\ (pc = "listReview" /\ pc' \in {"addLoop", "deleteLoop"})
          => remoteComments' = SnapshotOf(reviews)
    /\ pc \in {"addLoop", "deleteLoop"}
          => UNCHANGED <<remoteComments, commentsToAdd, commentsToDelete, inlineComments>>

C12_SingleSnapshot ==
    []ListedOnceBeforeMutations /\ [][ListingStep /\ SnapshotIsTheListing]_vars

\* A run that listed once and then created and deleted: the store no longer
\* is what the snapshot holds.
C12_Witness ==
    /\ pc = "done"
    /\ ListedAt # 0
    /\ \E i \in CallsOf("createReviewComment") : calls[i].ok
    /\ \E i \in CallsOf("deleteReviewComment") : calls[i].ok
    /\ SnapshotOf(reviews) # remoteComments

(***************************************************************************)
(* C13: when two runs with the same desired comments are interleaved at    *)
(* their store calls and both are over without a store failure, every      *)
(* desired line comment is in the store exactly once and the store holds   *)
(* no line comment that no desired comment equals.                         *)
(***************************************************************************)
CopiesInStore(c) == {k \in DOMAIN reviews : SameTriple(RemoteComment(reviews[k]), c)}

BothRunsOver == \A r \in Runs : pc[r] = "done" /\ failed[r] = <<>>

C13_NoLostUpdate ==
    BothRunsOver =>
        /\ \A i \in DOMAIN inlineComments : Cardinality(CopiesInStore(inlineComments[i])) = 1
        /\ \A k \in DOMAIN reviews :
              \E i \in DOMAIN inlineComments :
                 SameTriple(RemoteComment(reviews[k]), inlineComments[i])

(***************************************************************************)
(* Helpers of the claims about the text Diff.parse has read so far.        *)
(***************************************************************************)
\* The paths the `+++ b/<path>` headers of the text name.
HeaderPaths ==
    {ReplacePlusB(diffData[i]) : i \in {j \in DOMAIN diffData : StartsWithPlusB(diffData[j])}}

\* The lines recorded for a file, in the order they were recorded.
Recorded(f) == IF f \in DOMAIN diff.files THEN diff.files[f] ELSE <<>>

\* The text ends inside a hunk.
InHunk == pc = "build" /\ pr # <<>> /\ Last(pr).hunks # <<>>

CurrentHunk == Last(Last(pr).hunks)

\* The line read last is the first added line of its hunk.
FirstAddJustRead ==
    /\ InHunk
    /\ CurrentHunk.body # <<>>
    /\ Last(CurrentHunk.body).k = "add"
    /\ \A j \in 1..(Len(CurrentHunk.body) - 1) : CurrentHunk.body[j].k # "add"

\* The added lines of a hunk in the order of the text.
RECURSIVE AddedInOrder(_, _)
AddedInOrder(h, i) ==
    IF i > Len(h.body) THEN <<>>
    ELSE (IF h.body[i].k = "add" THEN <<NewLineNo(h, i)>> ELSE <<>>) \o AddedInOrder(h, i + 1)

(***************************************************************************)
(* C14: for a path f that no `+++ b/<path>` header of the diff names,      *)
(* fileHasChange(f, n) is false for every n; this includes the empty path, *)
(* the current file before the first header.                               *)
(***************************************************************************)
C14_UnmentionedFilesHaveNoChange ==
    \A f \in QueryPaths :
        f \notin HeaderPaths =>
            /\ f \notin DOMAIN diff.files
            /\ \A n \in QueryLines : fileHasChange(diff, f, n) \in {"false", "undefined"}

(***************************************************************************)
(* C15: an added line that directly follows a hunk header                  *)
(* `@@ -a,b +c,d @@` is the first added line after it and is recorded as   *)
(* new-revision line c of the current file, the file of the section.       *)
(***************************************************************************)
C15_AddedLineAfterHeaderIsC ==
    (FirstAddJustRead /\ Len(CurrentHunk.body) = 1) =>
        /\ ~diff.threw
        /\ diff.currentFile = Last(pr).path
        /\ Recorded(diff.currentFile) # <<>>
        /\ Last(Recorded(diff.currentFile)) = CurrentHunk.c
        /\ fileHasChange(diff, Last(pr).path, CurrentHunk.c) = "true"
        /\ diff.lineCounter = CurrentHunk.c

(***************************************************************************)
(* C20: inside a hunk with new-side start c, the counter after any prefix  *)
(* of the body is c - 1 plus the number of added and context lines read:   *)
(* removed lines leave it alone, context lines increment it and record     *)
(* nothing, an added line increments it and records the result for the     *)
(* current file; a header without `,length` is handled the same way.       *)
(***************************************************************************)
C20_CounterFollowsNewSide ==
    InHunk =>
        /\ diff.lineCounter = CurrentHunk.c - 1 + NewLen(CurrentHunk)
        /\ Last(pr).kind = "modified" =>
              /\ diff.currentFile = Last(pr).path
              /\ Recorded(Last(pr).path) =
                    Concat([i \in DOMAIN Last(pr).hunks |-> AddedInOrder(Last(pr).hunks[i], 1)])

(***************************************************************************)
(* Helpers of the claims about the synthesis (src/index.js:114-131).       *)
(***************************************************************************)
\* The k-th smallest element of a set of indices.
Kth(S, k) == CHOOSE i \in S : Cardinality({j \in S : j <= i}) = k

\* The elements of s at the indices of S, in the order of s.
Restrict(s, S) == [k \in 1..Cardinality(S) |-> s[Kth(S, k)]]

\* The diff has just been fetched and the desired comments built from it
\* (they do not change in the rest of the run).
Synthesised == variant = "current" /\ pc = "listOutline"

InDiffIdx ==
    {i \in DOMAIN issues : fileHasChange(diff, issues[i].file, issues[i].line) = "true"}

\* The current script has fetched the diff and built the Diff object; the
\* call of filterIssuesByDiff has returned or thrown.
Filtered ==
    /\ variant = "current"
    /\ calls # <<>>
    /\ Last(calls) = SimpleCall("pulls.get", TRUE)
    /\ "Failed to retrieve diff" \notin Range(failed)

RowsOf(body) == Cardinality({i \in DOMAIN body : body[i] = "<tr><td>"})

(***************************************************************************)
(* C16: filterIssuesByDiff partitions the findings: each finding is in     *)
(* exactly one of issuesInDiff and issuesNotInDiff, in issuesInDiff        *)
(* exactly when fileHasChange(file, line) is true, and each of the two     *)
(* sequences keeps the order of the input.                                 *)
(***************************************************************************)
C16_FilterPartitions ==
    Filtered =>
        LET r == filterIssuesByDiff(diff, issues)
            out == Restrict(issues, DOMAIN issues \ InDiffIdx)
        IN /\ ~r.threw
           /\ pc = "listOutline"
           /\ r.issuesInDiff = Restrict(issues, InDiffIdx)
           /\ r.issuesNotInDiff = out
           /\ Len(r.issuesInDiff) + Len(r.issuesNotInDiff) = Len(issues)
           /\ outlineComment = IF out # <<>> THEN generateTableForIssuesNotInDiff(out) ELSE <<>>
           /\ Sum([c \in DOMAIN inlineComments |-> RowsOf(inlineComments[c].body)])
                 = Cardinality(InDiffIdx)

(***************************************************************************)
(* C17: the desired comments of the current schema are one per (file,      *)
(* line): no two have the same (path, line), every in-diff finding gives   *)
(* exactly one row, in the comment of its (file, line), and the rows of a  *)
(* comment are in the order of the input.                                  *)
(***************************************************************************)
C17_OneCommentPerCoordinate ==
    Synthesised =>
        LET inDiff == Restrict(issues, InDiffIdx)
        IN /\ \A i, j \in DOMAIN inlineComments :
                 i # j => (inlineComments[i].path # inlineComments[j].path
                           \/ inlineComments[i].line # inlineComments[j].line)
           /\ \A k \in DOMAIN inDiff :
                 Cardinality({c \in DOMAIN inlineComments :
                                 /\ inlineComments[c].path = inDiff[k].file
                                 /\ inlineComments[c].line = inDiff[k].line}) = 1
           /\ \A c \in DOMAIN inlineComments :
                 LET at == SelectSeq(inDiff, LAMBDA x : /\ x.file = inlineComments[c].path
                                                        /\ x.line = inlineComments[c].line)
                 IN /\ at # <<>>
                    /\ RowsOf(inlineComments[c].body) = Len(at)
                    /\ inlineComments[c].body =
                          <<"<table><thead><tr><th>Level</th><th>Message</th></tr></thead><tbody>">>
                          \o Concat([i \in DOMAIN at |-> CommentRow(at[i])])
                          \o <<"</tbody></table>", IssueMarker>>

\* Two comments, one of them with two rows whose findings are not
\* neighbours in the input.
C17_Witness ==
    /\ Synthesised
    /\ Len(inlineComments) = 2
    /\ \E c \in DOMAIN inlineComments : RowsOf(inlineComments[c].body) = 2
    /\ Len(issues) = 3
    /\ issues[1].file = issues[3].file /\ issues[1].line = issues[3].line
    /\ issues[2].line # issues[1].line

(***************************************************************************)
(* C18: a malformed custom-lint JSON payload, like an absent one, gives an *)
(* empty list of custom-lint findings and the run goes on with the         *)
(* analyzer findings alone: the reading of the custom-lint log never fails *)
(* on a malformed payload.                                                 *)
(***************************************************************************)
C18_MalformedLintIsEmpty ==
    \A i \in CallsOf("readCustomLint") :
        calls[i].body = <<"malformed">> => (calls[i].ok /\ failed = <<>>)

(***************************************************************************)
(* C19: the path of a finding, with either separator and any number of     *)
(* separators, is normalized to the path without the working-directory     *)
(* prefix and without a leading separator, with forward slashes only: no   *)
(* backslash remains.                                                      *)
(***************************************************************************)
StripPrefix(path, wd) ==
    IF IsPrefix(wd, path, 1) THEN SubSeq(path, Len(wd) + 1, Len(path)) ELSE path

AllForward(path) == [i \in DOMAIN path |-> IF path[i] = "\\" THEN "/" ELSE path[i]]

C19_PathIsNormalized ==
    pc = "parsed" =>
        \A i \in DOMAIN issues :
            /\ \A j \in DOMAIN issues[i].file : issues[i].file[j] # "\\"
            /\ issues[i].file =
                  AllForward(StripLeadingSeparator(StripPrefix(Last(calls).path, workingDir)))

(***************************************************************************)
(* Helpers of the claims about the legacy traversal                        *)
(* (src/unnamed/part_000:75-117).                                          *)
(***************************************************************************)
\* The legacy script has just fetched the diff and built its comments.
LegacyWalked == variant = "legacy" /\ pc = "listReview"

WalkAfter(i) == walkFrom(EmptyWalk, SubSeq(diffData, 1, i), issues)

\* The comments pushed while line i of the diff is read.
PushedAt(i) ==
    SubSeq(WalkAfter(i).localComments, Len(WalkAfter(i - 1).localComments) + 1,
           Len(WalkAfter(i).localComments))

\* The hunk header line i belongs to.
HeaderOf(i) == Max({h \in 1..i : HunkHeaderMatch(diffData[h])})

\* The running counter at line i of a hunk: the start of the header minus
\* one, plus one for every line since the header that is no deletion.
\* The counter of part_000:84-91 is this one as long as no line of the hunk
\* begins with --- or +++.
RunningCounter(i) ==
    NewStart(diffData[HeaderOf(i)]) - 1
    + Cardinality({j \in (HeaderOf(i) + 1)..i : ~StartsWithMinus(diffData[j])})

(***************************************************************************)
(* C21: in the legacy schema the coordinate (position) of each located     *)
(* finding is the value the running counter (set from the start of the     *)
(* hunk header, incremented on context and added lines, not on deletions)  *)
(* has when the matching added line is read in the traversal of the diff.  *)
(***************************************************************************)
C21_PositionIsRunningCounter ==
    LegacyWalked =>
        /\ inlineComments = Concat([i \in DOMAIN diffData |-> PushedAt(i)])
        /\ \A i \in DOMAIN diffData :
              \A k \in DOMAIN PushedAt(i) :
                 /\ StartsWithPlus(diffData[i])
                 /\ PushedAt(i)[k].line = WalkAfter(i).newLineCounter
                 /\ PushedAt(i)[k].line = RunningCounter(i)
                 /\ PushedAt(i)[k].path = WalkAfter(i).currentFile
                 /\ \E x \in Range(issues) :
                       /\ x.file = PushedAt(i)[k].path
                       /\ x.line = PushedAt(i)[k].line
                       /\ PushedAt(i)[k].body = LocalComment(x).body

(***************************************************************************)
(* C22: every review comment a run deletes carries the marker of the       *)
(* machine-generated comments in its body; a remote review comment without *)
(* the marker (a reviewer's) is never passed to deleteReviewComment.       *)
(***************************************************************************)
C22_OnlyMarkedCommentsDeleted ==
    \A i \in CallsOf("deleteReviewComment") :
        Includes(calls[i].body, IF variant = "current" THEN IssueMarker ELSE LegacyMarker)

(***************************************************************************)
(* C23: for every diff and every finding, the legacy traversal             *)
(* (generateLocalComments) and the current index with its filter           *)
(* (Diff.parse, filterIssuesByDiff) locate the same findings: a finding    *)
(* gives a legacy line comment if and only if it is in issuesInDiff, and   *)
(* the coordinate of the legacy comment is the line of the finding.        *)
(***************************************************************************)
C23_LegacyAndCurrentLocateTheSame ==
    pc = "built" =>
        \A f \in QueryPaths, n \in QueryLines :
            LET x == Issue("info", <<"a">>, f, n, 1)
                legacy == generateLocalComments(diffData, <<x>>)
                current == filterIssuesByDiff(diff, <<x>>)
            IN /\ ~diff.threw /\ ~current.threw
               /\ (legacy # <<>>) <=> (current.issuesInDiff = <<x>>)
               /\ \A k \in DOMAIN legacy : legacy[k].line = n /\ legacy[k].path = f

(***************************************************************************)
(* C24: a run calls core.setFailed if and only if one of its external      *)
(* calls (reading a log, fetching the diff, a list, create or delete call  *)
(* of the comment-store) failed; a run in which every call succeeds, the   *)
(* one that ends at the ceiling-exceeded summary included, never calls it. *)
(***************************************************************************)
C24_FailedIffACallFailed ==
    (failed # <<>>) <=> (\E i \in DOMAIN calls : ~calls[i].ok)

====
